---- MODULE Spec2Model ----
(***************************************************************************)
(* Conversation / session lifecycle of sreworker (pyworker, py-worker).    *)
(*                                                                         *)
(* The module holds several specifications over one set of variables, one  *)
(* per component:                                                          *)
(*   SpecRepo    the conversations table behind ConversationRepository and *)
(*               the REST create / delete handlers;                        *)
(*   SpecMsg     the messages table behind MessageRepository;              *)
(*   SpecApi     the REST send / sync / delete handlers with the JSONL     *)
(*               store of ConversationManager and the vendor's session     *)
(*               transcripts;                                              *)
(*   SpecDelete  the delete handler beside sends in flight;                *)
(*   SpecWatch   the directory-watch callback beside the handlers;         *)
(*   SpecWM      the conversation runners of the v1 WorkerManager.         *)
(* Every specification initialises all variables; an action leaves the     *)
(* variables of the other components unchanged.                            *)
(***************************************************************************)
EXTENDS Integers, Sequences, FiniteSets, TLC

(***************************************************************************)
(* Bounds and input sets.                                                  *)
(***************************************************************************)
\* Number of conversation ids uuid.uuid4() hands out in one run (never reused).
MaxConvs == 3

\* Rows of the workers table (WorkerRepository.get finds exactly these).
Workers == {"w1", "w2"}
\* Worker names a request may carry.
WorkerNames == Workers \cup {"nobody"}
\* Values datetime.utcnow() may return (the wall clock is an input).
Times == {1, 2}
\* project_path of a create request: an existing directory, a file, nothing.
Paths == {"dir", "file", "missing"}
\* SQL NULL / Python None for raw_conversation_id.
NULL == 0
\* The type column of the workers table: w2 is an opencode worker.
worker_type(w) == IF w = "w2" THEN "opencode" ELSE "claudecode"
\* handlers: the worker class registered for a type.
handlers(type) ==
    IF type \in {"claudecode", "claude"} THEN "ClaudeCodeWorker" ELSE "OpenCodeWorker"
\* OpenCodeWorker: start_conversation and fetch_messages raise
\* NotImplementedError, and sync_messages calls fetch_messages.
OpenCodeWorker_raises == "NotImplementedError"

ConvIds == 1..MaxConvs

\* Longest list handed to MessageRepository.add_batch.
MaxBatch == 2
\* Source uuids and contents of messages, and the conversations they belong to.
Uuids == {"u1", "u2"}
Contents == {"a", "b"}
MsgConvs == {1, 2}

\* Session ids the vendor hands out in one run (never reused).
MaxSessions == 2
RawIds == 1..MaxSessions
\* Sends (POST /conversations/{id}) accepted in one run.
MaxSends == 3
\* Longest vendor transcript.
MaxRecords == 2
\* Conversations created in one run of the send handlers, and of the watch.
MaxApiConvs == 2
MaxWatchConvs == 1
\* Sends accepted in one run of the watch, and beside the delete handler.
MaxWatchSends == 2
MaxDeleteSends == 2
\* Conversations and subprocesses of one run of the WorkerManager.
MaxWMConvs == 2
MaxPids == 3
\* A runner without process (process_handler.process is None).
NoPid == 0
\* Suffix of the path a directory-watch event carries.
Suffixes == {".jsonl", ".tmp"}
MaxSpawns == 2
MaxLines == 2
MaxTasks == 2
MaxCallbacks == 2
MaxStdin == 2
MaxCMConvs == 2
MaxJsonlRecords == 2
MaxFileLen == 4
max_workers == 2
MaxCreates == 4
MaxRegistrations == 2
MaxInputs == 2
MaxSaved == 2
MaxBuf == 3
MaxN == 3
MaxSendConvs == 1
MaxSendSends == 2
MaxSyncConvs == 2
MaxSyncSends == 2

VARIABLES
    conversations,   \* rows of table conversations (db/connection.py:54-66)
    nextConvId,      \* next fresh uuid4 of create_conversation
    messages,        \* rows of table messages, in insertion order; the id
                     \* column (nextval of messages_id_seq) is the position
    store,           \* ConversationManager's files: store.input[c] and
                     \* store.messages[c], each [exists, lines]
    sessionFiles,    \* the vendor's <session id>.jsonl transcripts
    nextRawId,       \* next fresh session id of the vendor
    active_sessions, \* ClaudeCodeWorker._active_sessions
    conv_manager_ref,\* ClaudeCodeWorker._conv_manager_ref is set
    watching,        \* ClaudeCodeWorker._watching
    _file_manager,   \* ClaudeCodeWorker._file_manager: "None" or "fm"
    requests,        \* create_input calls suspended at the vendor invocation
    nSends,          \* sends accepted so far
    clock,           \* the wall clock datetime.utcnow() reads
    wm_conversations,\* WorkerManager.conversations: conversation id -> runner,
                     \* a runner being the pid of its process (NoPid if none)
    procs,           \* the live vendor subprocesses, [pid, conv]
    starting,        \* start calls suspended in runner.start()
    stopping,        \* pids of processes being terminated by runner.stop()
    nextPid,         \* next fresh pid
    firstRaw,        \* history: per conversation, the raw id persisted by
                     \* its first successful send (NULL if none yet)
    is_running,      \* ProcessHandler.is_running
    process,         \* ProcessHandler.process: the pid, NoPid for None
    output_task,     \* ProcessHandler.output_task: "task" or "None"
    child,           \* the subprocess as the event loop sees it
    reader,          \* the state of the _read_stdout task
    stdout,          \* lines written by the child and not read yet
    emitted,         \* history: every line the child wrote
    delivered,       \* history: the values passed to output_callback
    startPc,         \* where a start() call is suspended
    stopPc,          \* where a stop() call is suspended
    signals,         \* history: the signals stop() sent, with their context
    nSpawns,         \* subprocesses spawned so far
    _running,        \* FileManager._running
    _watches,        \* FileManager._watches: file path -> callbacks
    _dir_watches,    \* FileManager._dir_watches: directory -> callbacks
    _dir_tasks,      \* FileManager._dir_tasks: directory -> watch task id
    tasks,           \* every watch task created: id -> [kind, state, queue]
    websocket_connections, \* WorkerManager.websocket_connections
    deleting,        \* delete_conversation calls suspended at an await
    current_conversation_id, \* per worker, its conversation manager's
                     \* current_conversation_id (NULL for None)
    conversations_cache,     \* per worker, the ids in its manager's cache
    conv_dirs,       \* ids whose directory .claude/sessions/<id> exists
    jsonl,           \* the bytes of the JSON-Lines file JSONLParser reads
    last_position,   \* JSONLParser.last_position
    parsed,          \* history: the records handed to the callback
    db_workers,      \* the ids in the workers table of the v1 database
    workers,         \* services/worker_manager.py: the keys of self.workers
    process_handlers,\* the keys of self.process_handlers (started handlers)
    pending,         \* create_worker and delete_worker calls at their await
    nextWorkerId,    \* the next fresh worker id
    oc_project_path, \* OpenCode conversations: id -> project_path (NULL
                     \* while the conversation does not exist)
    oc_process_handler, \* OpenCodeWorker.process_handler: a handler id,
                     \* NoHandler for None
    oc_handlers,     \* every ProcessHandler the worker built: id ->
                     \* [project_path, is_running, process, startPc]
    oc_sends,        \* OpenCodeWorker.send_message calls at their await
    oc_written,      \* history: [conv, cwd] for every write to a stdin
    last             \* history: the last request handled, its outcome, and
                     \* (pre) what the claims need of the state before it

repoVars == <<conversations, nextConvId>>
msgVars == <<messages>>
fileVars == <<store>>
vendorVars == <<sessionFiles, nextRawId>>
watchVars == <<active_sessions, conv_manager_ref, watching, _file_manager>>
reqVars == <<requests, nSends, firstRaw>>
timeVars == <<clock>>
wsVars == <<websocket_connections, deleting>>
wmVars == <<wm_conversations, procs, starting, stopping, nextPid, wsVars>>
handlerVars == <<is_running, process, output_task>>
osVars == <<child, reader, stdout, emitted, delivered>>
phVars == <<handlerVars, osVars, startPc, stopPc, signals, nSpawns>>
fmVars == <<_running, _watches, _dir_watches, _dir_tasks, tasks>>
cmVars == <<current_conversation_id, conversations_cache, conv_dirs>>
parserVars == <<jsonl, last_position, parsed>>
workerVars == <<db_workers>>
capVars == <<workers, process_handlers, pending, nextWorkerId>>
ocVars == <<oc_project_path, oc_process_handler, oc_handlers, oc_sends, oc_written>>
otherVars == <<workerVars, capVars, ocVars>>
svcVars == <<phVars, fmVars, cmVars, parserVars, otherVars>>
vars == <<conversations, nextConvId, messages, store, sessionFiles, nextRawId,
          active_sessions, conv_manager_ref, watching, _file_manager,
          requests, nSends,
          clock, wm_conversations, procs, starting, stopping, nextPid,
          firstRaw, is_running, process, output_task, child, reader, stdout,
          emitted, delivered, startPc, stopPc, signals, nSpawns, _running,
          _watches, _dir_watches, _dir_tasks, tasks, websocket_connections,
          deleting, current_conversation_id, conversations_cache, conv_dirs,
          jsonl, last_position, parsed, db_workers, workers,
          process_handlers, pending, nextWorkerId, oc_project_path,
          oc_process_handler, oc_handlers, oc_sends, oc_written, last>>
\* What the handlers of one component leave alone.
apiVars == <<fileVars, vendorVars, watchVars, reqVars>>
notRepo == <<msgVars, svcVars, apiVars, timeVars, wmVars>>
notMsg == <<repoVars, svcVars, apiVars, timeVars, wmVars>>
notPH == <<repoVars, msgVars, apiVars, timeVars, wmVars, fmVars, cmVars, parserVars, otherVars>>
notFM == <<repoVars, msgVars, apiVars, timeVars, wmVars, phVars, cmVars, parserVars, otherVars>>
notCM == <<msgVars, apiVars, timeVars, wmVars, phVars, fmVars, parserVars, otherVars>>
notParser == <<repoVars, msgVars, apiVars, timeVars, wmVars, phVars, fmVars, cmVars, otherVars>>

\* The state of each component after construction.
NoFile == [exists |-> FALSE, lines |-> <<>>]
\* OpenCodeWorker.process_handler is None
NoHandler == 0
\* The project_path of a conversation that does not exist
NoPath == "None"
NoChild == [state |-> "none", stdin |-> "none", received |-> <<>>]
\* ProcessHandler.__init__
ProcessHandlerInit ==
    /\ is_running = FALSE
    /\ process = NoPid
    /\ output_task = "None"
    /\ child = NoChild
    /\ reader = "none"
    /\ stdout = <<>>
    /\ emitted = <<>>
    /\ delivered = <<>>
    /\ startPc = "idle"
    /\ stopPc = "idle"
    /\ signals = <<>>
    /\ nSpawns = 0

\* ClaudeConversationManager.__init__ of every worker, on an empty database.
ConversationManagerInit ==
    /\ current_conversation_id = [w \in Workers |-> NULL]
    /\ conversations_cache = [w \in Workers |-> {}]
    /\ conv_dirs = {}

\* JSONLParser.__init__, on a file that FileWatcher.start created empty.
JSONLParserInit ==
    /\ jsonl = <<>>
    /\ last_position = 0
    /\ parsed = <<>>

\* FileManager.__init__
FileManagerInit ==
    /\ _running = FALSE
    /\ _watches = <<>>
    /\ _dir_watches = <<>>
    /\ _dir_tasks = <<>>
    /\ tasks = <<>>
RepoInit == conversations = {} /\ nextConvId = 1
MsgInit == messages = <<>>
ApiInit ==
    /\ store = [input |-> [c \in ConvIds |-> NoFile],
                messages |-> [c \in ConvIds |-> NoFile]]
    /\ sessionFiles = [r \in RawIds |-> NoFile]
    /\ nextRawId = 1
    /\ active_sessions = {}
    /\ conv_manager_ref = FALSE
    /\ watching = FALSE
    /\ _file_manager = "None"
    /\ db_workers = Workers
    /\ workers = {}
    /\ process_handlers = {}
    /\ pending = {}
    /\ nextWorkerId = 1
    /\ oc_project_path = [c \in ConvIds |-> NoPath]
    /\ oc_process_handler = NoHandler
    /\ oc_handlers = <<>>
    /\ oc_sends = {}
    /\ oc_written = {}
    /\ requests = {}
    /\ nSends = 0
    /\ firstRaw = [c \in ConvIds |-> NULL]
    /\ clock = 1
    /\ wm_conversations = {}
    /\ procs = {}
    /\ starting = {}
    /\ stopping = {}
    /\ nextPid = 1
    /\ websocket_connections = <<>>
    /\ deleting = {}
    /\ ProcessHandlerInit
    /\ FileManagerInit
    /\ ConversationManagerInit
    /\ JSONLParserInit

(***************************************************************************)
(* ConversationRepository: each operator maps the table to the table after *)
(* the statement(s).  DuckDB runs each execute() in autocommit, so the     *)
(* trailing commit() adds nothing.                                         *)
(***************************************************************************)
ConversationDO(id, w, cur, raw, now) ==
    [id |-> id, worker_id |-> w, is_current |-> cur,
     raw_conversation_id |-> raw, last_activity |-> now]

\* INSERT INTO conversations ... VALUES (...)
ConversationRepository_create(tbl, row) == tbl \cup {row}

\* SELECT ... WHERE id = ?  (the empty set stands for None)
ConversationRepository_get(tbl, c) == {r \in tbl : r.id = c}

\* SELECT id ... WHERE worker_id = ? AND is_current = TRUE  (LIMIT 1 picks
\* one of these; the empty set stands for None)
ConversationRepository_get_current(tbl, w) ==
    {r.id : r \in {x \in tbl : x.worker_id = w /\ x.is_current}}

\* UPDATE conversations SET is_current = FALSE WHERE worker_id = ?
UnsetCurrent(tbl, w) ==
    {IF r.worker_id = w THEN [r EXCEPT !.is_current = FALSE] ELSE r : r \in tbl}

\* UPDATE conversations SET is_current = TRUE, last_activity = ?
\*   WHERE id = ? AND worker_id = ?
SetCurrent(tbl, w, c, now) ==
    {IF r.id = c /\ r.worker_id = w
        THEN [r EXCEPT !.is_current = TRUE, !.last_activity = now]
        ELSE r : r \in tbl}

\* Mutant: the first UPDATE without its WHERE worker_id = ? clause.
switch_current_unset_everyone(tbl, w, c, now) ==
    SetCurrent({[r EXCEPT !.is_current = FALSE] : r \in tbl}, w, c, now)

ConversationRepository_switch_current(tbl, w, c, now) ==
    SetCurrent(UnsetCurrent(tbl, w), w, c, now)

\* DELETE FROM conversations WHERE id = ?
ConversationRepository_delete(tbl, c) == {r \in tbl : r.id # c}

(***************************************************************************)
(* REST handlers of api/v1/conversations.py on the table.                  *)
(***************************************************************************)
\* Mutant: any project_path is accepted.
exists_and_is_dir_unchecked(path) == TRUE

\* Path(project_path).exists() and .is_dir()
exists_and_is_dir(path) == path = "dir"

\* POST /api/v1/conversations; pre is the project_path of the request.
create_conversation(w, path, now) ==
    /\ nextConvId <= MaxConvs
    /\ UNCHANGED notRepo
    /\ IF ~exists_and_is_dir(path)
          THEN /\ last' = [op |-> "create", status |-> 400, worker |-> w, conv |-> 0,
                           pre |-> {path}]
               /\ UNCHANGED repoVars
       ELSE IF w \notin Workers
          THEN /\ last' = [op |-> "create", status |-> 404, worker |-> w, conv |-> 0,
                           pre |-> {path}]
               /\ UNCHANGED repoVars
       ELSE /\ conversations' = ConversationRepository_create(conversations,
                                    ConversationDO(nextConvId, w, TRUE, NULL, now))
            /\ nextConvId' = nextConvId + 1
            /\ last' = [op |-> "create", status |-> 201, worker |-> w,
                        conv |-> nextConvId, pre |-> {path}]

\* ConversationRepository.switch_current(worker_id, conversation_id): the
\* repository takes any pair of ids and answers True.
switch_current(w, c, now) ==
    /\ conversations' = ConversationRepository_switch_current(conversations, w, c, now)
    /\ last' = [op |-> "switch", status |-> 200, worker |-> w, conv |-> c,
                pre |-> ConversationRepository_get_current(conversations, w)]
    /\ UNCHANGED <<nextConvId, notRepo>>

\* Mutant: only the inputs file is unlinked.
delete_conversation_inputs_only(st, c) == [st EXCEPT !.input[c] = NoFile]

\* ConversationManager.delete_conversation: unlink both files if present.
ConversationManager_delete_conversation(st, c) ==
    [st EXCEPT !.input[c] = NoFile, !.messages[c] = NoFile]

\* The files of conversation c that exist.
FilesOf(st, c) == {k \in {"input", "messages"} : st[k][c].exists}

\* DELETE /api/v1/conversations/{conversation_id}; pre is the set of the
\* conversation's files that existed.
delete_conversation(c) ==
    /\ UNCHANGED <<timeVars, wmVars, msgVars, svcVars, vendorVars, watchVars, reqVars>>
    /\ IF ConversationRepository_get(conversations, c) = {}
          THEN /\ last' = [op |-> "delete", status |-> 404, worker |-> "nobody",
                           conv |-> c, pre |-> {}]
               /\ UNCHANGED <<repoVars, fileVars>>
          ELSE /\ store' = ConversationManager_delete_conversation(store, c)
               /\ conversations' = ConversationRepository_delete(conversations, c)
               /\ last' = [op |-> "delete", status |-> 200, worker |-> "nobody",
                           conv |-> c, pre |-> FilesOf(store, c)]
               /\ UNCHANGED nextConvId

InitRepo ==
    /\ RepoInit
    /\ MsgInit
    /\ ApiInit
    /\ last = [op |-> "init", status |-> 0, worker |-> "nobody", conv |-> 0, pre |-> {}]

NextRepo ==
    \/ \E w \in WorkerNames, p \in Paths, t \in Times : create_conversation(w, p, t)
    \/ \E w \in Workers, c \in ConvIds, t \in Times : switch_current(w, c, t)
    \/ \E c \in ConvIds : delete_conversation(c)

SpecRepo == InitRepo /\ [][NextRepo]_vars

(***************************************************************************)
(* Claims on the conversations table (SpecRepo).                           *)
(***************************************************************************)
\* C1: after any sequence of create, switch-current and delete operations
\* every worker has at most one conversation whose is_current flag is set.
C1_AtMostOneCurrent ==
    \A w \in Workers :
        Cardinality(ConversationRepository_get_current(conversations, w)) <= 1

\* C2: setting a conversation current never leaves a state in which the
\* worker's previous current flag has been cleared and no conversation of
\* that worker is current (also when the target is not one of its rows).
C2_SwitchKeepsACurrent ==
    (last.op = "switch" /\ last.pre # {})
        => ConversationRepository_get_current(conversations, last.worker) # {}

\* C3: after switch_current(W, C) succeeds for a conversation C of worker W,
\* C is current, every other conversation of W is not current, and the rows
\* of every other worker are as they were.
C3_SwitchCurrentEffect ==
    [][ ( /\ last'.op = "switch"
          /\ \E r \in conversations :
                r.id = last'.conv /\ r.worker_id = last'.worker )
        => ( /\ \A r \in conversations' :
                   r.worker_id = last'.worker
                       => (r.is_current <=> r.id = last'.conv)
             /\ ConversationRepository_get_current(conversations', last'.worker)
                    = {last'.conv}
             /\ {r \in conversations' : r.worker_id # last'.worker}
                    = {r \in conversations : r.worker_id # last'.worker}
             /\ {r.id : r \in conversations'} = {r.id : r \in conversations} )
      ]_vars

\* A switch among two conversations of one worker while another worker
\* holds a current conversation of its own.
C3_Witness ==
    /\ last.op = "switch"
    /\ \E r, o, x \in conversations :
          /\ r.id = last.conv /\ r.worker_id = last.worker /\ r.is_current
          /\ o.id # r.id /\ o.worker_id = r.worker_id /\ ~o.is_current
          /\ x.worker_id # r.worker_id /\ x.is_current

\* C11: a create whose project path does not exist or is not a directory
\* fails with a validation error (400) and leaves the stored conversations
\* as they were.
C11_BadPathRejected ==
    [][ (last'.op = "create" /\ last'.pre \cap {"file", "missing"} # {})
           => /\ last'.status = 400
              /\ conversations' = conversations
              /\ nextConvId' = nextConvId ]_vars

\* A rejected create for a known worker while conversations are stored.
C11_Witness ==
    /\ last.op = "create"
    /\ last.status = 400
    /\ last.pre = {"file"}
    /\ last.worker \in Workers
    /\ conversations # {}

(***************************************************************************)
(* MessageRepository on table messages.  _init_schema creates the unique   *)
(* index idx_messages_uuid on the fresh table, so an INSERT of a uuid that *)
(* is already stored raises and the repository's except clause drops it.   *)
(***************************************************************************)
MessageDO(c, u, x) == [conversation_id |-> c, uuid |-> u, content |-> x]
Msgs == {MessageDO(c, u, x) : c \in MsgConvs, u \in Uuids, x \in Contents}

\* SELECT 1 FROM messages WHERE uuid = ?
MessageRepository_exists_by_uuid(tbl, u) ==
    \E i \in DOMAIN tbl : tbl[i].uuid = u

\* Mutant: the table without its unique index on uuid.
add_without_unique_index(tbl, m) == Append(tbl, m)

\* add: INSERT ... VALUES (...) RETURNING id, rejected by the unique index
\* when the uuid is stored (the method then returns None).
MessageRepository_add(tbl, m) ==
    IF MessageRepository_exists_by_uuid(tbl, m.uuid) THEN tbl ELSE Append(tbl, m)

\* Mutant: an upsert, the stored row takes the content of the new message.
InsertOrReplace(tbl, m) ==
    IF MessageRepository_exists_by_uuid(tbl, m.uuid)
       THEN [i \in DOMAIN tbl |-> IF tbl[i].uuid = m.uuid THEN m ELSE tbl[i]]
       ELSE Append(tbl, m)

\* add_batch, one message: INSERT ... SELECT ... WHERE NOT EXISTS
\*   (SELECT 1 FROM messages WHERE uuid = ?)
InsertWhereNotExists(tbl, m) ==
    IF MessageRepository_exists_by_uuid(tbl, m.uuid) THEN tbl ELSE Append(tbl, m)

\* add_batch, the table after the loop over the messages.
RECURSIVE add_batch_rows(_, _)
add_batch_rows(tbl, ms) ==
    IF ms = <<>> THEN tbl
    ELSE add_batch_rows(InsertWhereNotExists(tbl, Head(ms)), Tail(ms))

\* add_batch, its return value: added_count goes up after every execute()
\* that did not raise, and the guarded INSERT never raises.
add_batch_count(tbl, ms) == Len(ms)

\* DELETE FROM messages WHERE conversation_id = ?
MessageRepository_delete_by_conversation(tbl, c) ==
    SelectSeq(tbl, LAMBDA r : r.conversation_id # c)

\* Lists handed to add_batch: the messages of one conversation's sync.
Batches ==
    UNION {[1..n -> {m \in Msgs : m.conversation_id = c}] :
              n \in 0..MaxBatch, c \in MsgConvs}

\* The history of an insert: the messages handed in (msgs), the table
\* before (pre) and the value returned (status).
add(m) ==
    /\ messages' = MessageRepository_add(messages, m)
    /\ last' = [op |-> "add", msgs |-> <<m>>, pre |-> messages,
                status |-> IF MessageRepository_exists_by_uuid(messages, m.uuid)
                              THEN 0 ELSE Len(messages) + 1]
    /\ UNCHANGED notMsg

add_batch(ms) ==
    /\ messages' = add_batch_rows(messages, ms)
    /\ last' = [op |-> "add_batch", msgs |-> ms, pre |-> messages,
                status |-> add_batch_count(messages, ms)]
    /\ UNCHANGED notMsg

delete_by_conversation(c) ==
    /\ messages' = MessageRepository_delete_by_conversation(messages, c)
    /\ last' = [op |-> "delete_by_conversation", msgs |-> <<>>, pre |-> messages,
                status |-> 1]
    /\ UNCHANGED notMsg

InitMsg ==
    /\ RepoInit
    /\ MsgInit
    /\ ApiInit
    /\ last = [op |-> "init", msgs |-> <<>>, pre |-> <<>>, status |-> 0]

NextMsg ==
    \/ \E m \in Msgs : add(m)
    \/ \E ms \in Batches : add_batch(ms)
    \/ \E c \in MsgConvs : delete_by_conversation(c)

SpecMsg == InitMsg /\ [][NextMsg]_vars

(***************************************************************************)
(* Claims on the messages table (SpecMsg).                                 *)
(***************************************************************************)
\* The rows that store uuid u.
RowsOf(tbl, u) == {i \in DOMAIN tbl : tbl[i].uuid = u}
\* The messages of an insert, in order, that carry uuid u.
Carrying(ms, u) == SelectSeq(ms, LAMBDA m : m.uuid = u)
IsInsert == last.op \in {"add", "add_batch"}

\* C5: after any sequence of single and batch inserts, no two stored
\* message rows have the same uuid.
C5_UniqueUuid ==
    \A i, j \in DOMAIN messages :
        messages[i].uuid = messages[j].uuid => i = j

\* A repeated insert: the uuid handed in was stored already, by a row of
\* another conversation, and a second uuid is stored beside it.
C5_Witness ==
    /\ IsInsert
    /\ Len(messages) = 2
    /\ \E k \in DOMAIN last.msgs, i \in DOMAIN last.pre :
          /\ last.pre[i].uuid = last.msgs[k].uuid
          /\ last.pre[i].conversation_id # last.msgs[k].conversation_id

\* C6 as stated: when records with the same source uuid are inserted one
\* after the other, exactly one message is stored and its content is that
\* of the later insert (last write wins).
C6_LastWriteWins ==
    IsInsert =>
        \A u \in Uuids :
            Carrying(last.msgs, u) # <<>> =>
                /\ Cardinality(RowsOf(messages, u)) = 1
                /\ \A i \in RowsOf(messages, u) :
                      messages[i].content
                          = Carrying(last.msgs, u)[Len(Carrying(last.msgs, u))].content

\* C6 as amended: exactly one message is stored and its content is that of
\* the first insert of the uuid (the stored row if there was one, else the
\* first message of the batch that carries it); later inserts are dropped.
C6_FirstWriteWins ==
    IsInsert =>
        \A u \in Uuids :
            Carrying(last.msgs, u) # <<>> =>
                /\ Cardinality(RowsOf(messages, u)) = 1
                /\ \A i \in RowsOf(messages, u) :
                      messages[i] = IF RowsOf(last.pre, u) # {}
                                       THEN last.pre[CHOOSE k \in RowsOf(last.pre, u) : TRUE]
                                       ELSE Carrying(last.msgs, u)[1]

\* A second insert of a stored uuid with another content: the row keeps
\* the content of the first insert.
C6_Witness ==
    /\ IsInsert
    /\ \E k \in DOMAIN last.msgs, i \in DOMAIN last.pre, j \in DOMAIN messages :
          /\ last.pre[i].uuid = last.msgs[k].uuid
          /\ last.pre[i].content # last.msgs[k].content
          /\ messages[j] = last.pre[i]

(***************************************************************************)
(* Vendor transcripts and the normalizer of ClaudeCodeWorker.  A line of   *)
(* a transcript is a record: json says whether json.loads accepts it, the  *)
(* other fields are the keys of the object ("" stands for a missing key).  *)
(***************************************************************************)
\* A full record, a record without uuid, sessionId and timestamp (the
\* vendor's summary lines), and a line that is not JSON.
RecFull == [json |-> TRUE, type |-> "user", uuid |-> "u1", sessionId |-> "",
            timestamp |-> "t1", text |-> "a"]
RecBare == [json |-> TRUE, type |-> "summary", uuid |-> "", sessionId |-> "",
            timestamp |-> "", text |-> ""]
BadLine == [json |-> FALSE, type |-> "", uuid |-> "", sessionId |-> "",
            timestamp |-> "", text |-> ""]
RawLines == {RecFull, RecBare, BadLine}

\* datetime.fromisoformat: the strings it accepts and the instants they denote.
IsoTimes == [t1 |-> 1, t2 |-> 2]

\* msg_uuid: uuid or sessionId, else f"{type}-{timestamp}" (a string is
\* the sequence of its parts).
MessageUuid(raw) ==
    IF raw.uuid # "" THEN <<raw.uuid>>
    ELSE IF raw.sessionId # "" THEN <<raw.sessionId>>
    ELSE <<raw.type, "-", raw.timestamp>>

\* The content blocks: the text of a user or assistant message, none for
\* the other types.
MessageContents(raw) ==
    IF raw.type \in {"user", "assistant"}
       THEN <<[type |-> "text", content |-> raw.text]>>
       ELSE <<>>

\* _convert_raw_message: the MessageResponse object of a parsed record; a
\* timestamp that fromisoformat rejects becomes datetime.utcnow().
_convert_raw_message(raw, now) ==
    [class |-> "MessageResponse",
     uuid |-> MessageUuid(raw),
     type |-> raw.type,
     contents |-> MessageContents(raw),
     timestamp |-> IF raw.timestamp \in DOMAIN IsoTimes
                      THEN IsoTimes[raw.timestamp] ELSE now]

\* The lines of a transcript that json.loads accepts.
ParsedLines(file) == SelectSeq(file.lines, LAMBDA l : l.json)

\* fetch_messages: [] without session file, else one MessageResponse per
\* line that parses; the other lines are skipped.
fetch_messages(files, raw_id, now) ==
    IF ~files[raw_id].exists THEN <<>>
    ELSE [i \in DOMAIN ParsedLines(files[raw_id]) |->
             _convert_raw_message(ParsedLines(files[raw_id])[i], now)]

\* The JSON-serialisable dict of a MessageResponse.
model_dump(m) == [m EXCEPT !.class = "dict"]

\* BaseWorker.sync_messages: the normalized messages of the transcript as
\* dicts ("already standardized by worker", to be written by save_messages).
sync_messages(files, raw_id, now) ==
    [i \in DOMAIN fetch_messages(files, raw_id, now) |->
        model_dump(fetch_messages(files, raw_id, now)[i])]

(***************************************************************************)
(* ConversationManager: the two JSONL files of a conversation.             *)
(***************************************************************************)
\* json.dumps(msg) succeeds on dicts and raises TypeError on a pydantic object.
Serializable(m) == m.class = "dict"

\* The messages written before json.dumps raises.
RECURSIVE WrittenPrefix(_)
WrittenPrefix(msgs) ==
    IF msgs = <<>> \/ ~Serializable(Head(msgs)) THEN <<>>
    ELSE <<Head(msgs)>> \o WrittenPrefix(Tail(msgs))

\* save_messages: open(path, "w") truncates, then one line per message.
ConversationManager_save_messages(st, c, msgs) ==
    [st EXCEPT !.messages[c] = [exists |-> TRUE, lines |-> WrittenPrefix(msgs)]]

\* add_input: append one record to the inputs file.
ConversationManager_add_input(st, c, now) ==
    [st EXCEPT !.input[c] =
        [exists |-> TRUE,
         lines |-> Append(@.lines, [role |-> "user", content |-> "hello",
                                    timestamp |-> now])]]

\* ConversationRepository.update(id, {raw_conversation_id: raw})
UpdateRaw(tbl, c, raw) ==
    {IF r.id = c THEN [r EXCEPT !.raw_conversation_id = raw] ELSE r : r \in tbl}
\* ConversationRepository.update(id, {last_activity: now})
UpdateActivity(tbl, c, now) ==
    {IF r.id = c THEN [r EXCEPT !.last_activity = now] ELSE r : r \in tbl}

(***************************************************************************)
(* The session watch of ClaudeCodeWorker (class-level state).              *)
(***************************************************************************)
\* _active_sessions[raw] = (conversation_id, worker_id)
activate_session(reg, raw, c, w) ==
    {e \in reg : e.raw # raw} \cup {[raw |-> raw, conv |-> c, worker |-> w]}
Registered(reg, raw) == \E e \in reg : e.raw = raw
EntryOf(reg, raw) == CHOOSE e \in reg : e.raw = raw

\* stop_watching: clear the class-level state.
stop_watching ==
    /\ active_sessions' = {}
    /\ conv_manager_ref' = FALSE
    /\ watching' = FALSE
    /\ _file_manager' = "None"
    /\ last' = [op |-> "stop_watching", status |-> 0, worker |-> "nobody",
                conv |-> 0, pre |-> {}]
    /\ UNCHANGED <<timeVars, wmVars, repoVars, msgVars, svcVars, fileVars, vendorVars, reqVars>>

\* _on_session_changed(path), for a path <raw>.<suffix> of the watched
\* directory; the callback is registered while the class is watching.  A
\* TypeError of save_messages is caught and logged.  pre records the path
\* and whether its stem was registered; status 1 marks a fetch.
_on_session_changed(raw, suffix, now) ==
    /\ watching
    /\ UNCHANGED <<timeVars, wmVars, repoVars, msgVars, svcVars, vendorVars, watchVars, reqVars>>
    /\ IF suffix # ".jsonl" \/ ~Registered(active_sessions, raw)
          THEN /\ UNCHANGED fileVars
               /\ last' = [op |-> "event", status |-> 0, worker |-> "nobody",
                           conv |-> 0,
                           pre |-> [raw |-> raw, suffix |-> suffix,
                                    registered |-> Registered(active_sessions, raw)]]
          ELSE /\ store' = IF conv_manager_ref /\ fetch_messages(sessionFiles, raw, now) # <<>>
                              THEN ConversationManager_save_messages(store,
                                       EntryOf(active_sessions, raw).conv,
                                       fetch_messages(sessionFiles, raw, now))
                              ELSE store
               /\ last' = [op |-> "event", status |-> 1,
                           worker |-> EntryOf(active_sessions, raw).worker,
                           conv |-> EntryOf(active_sessions, raw).conv,
                           pre |-> [raw |-> raw, suffix |-> suffix,
                                    registered |-> TRUE]]

\* The vendor appends a line to one of its transcripts.
vendor_write(raw, line) ==
    /\ sessionFiles[raw].exists
    /\ Len(sessionFiles[raw].lines) < MaxRecords
    /\ sessionFiles' = [sessionFiles EXCEPT ![raw].lines = Append(@, line)]
    /\ last' = [op |-> "vendor", status |-> 0, worker |-> "nobody", conv |-> 0,
                pre |-> {}]
    /\ UNCHANGED <<timeVars, wmVars, repoVars, msgVars, svcVars, fileVars, nextRawId, watchVars, reqVars>>

(***************************************************************************)
(* REST handlers of api/v1/conversations.py that talk to the vendor.  The  *)
(* worker w1 is of type claudecode, w2 of type opencode.  create_input     *)
(* suspends once, at the await of the vendor subprocess: the part before   *)
(* is one action, the part after the vendor's exit another.  The calls of  *)
(* datetime.utcnow() within one step return one value.                     *)
(***************************************************************************)
\* What the vendor writes to the transcript during one invocation.
VendorOutputs == {<<>>} \cup {<<l>> : l \in RawLines}

\* How a vendor invocation ends: the exit code and the bytes on stderr
\* (utf8: whether they are valid UTF-8).
Exit0 == [code |-> 0, stderr |-> "", utf8 |-> TRUE]
ExitBoom == [code |-> 1, stderr |-> "boom", utf8 |-> TRUE]
ExitBadBytes == [code |-> 1, stderr |-> "\\xff", utf8 |-> FALSE]
VendorExits == {Exit0, ExitBoom, ExitBadBytes}

\* POST /api/v1/conversations/{conversation_id}, lines 231-281: read the
\* conversation, instantiate the worker (which starts the watch), choose
\* start or resume from the raw id read, register the session when
\* resuming, and invoke the vendor.  The request keeps the conversation as
\* read; after is the history value firstRaw at this moment.
create_input_begin(c) ==
    /\ UNCHANGED <<timeVars, wmVars, repoVars, msgVars, svcVars, fileVars, vendorVars, firstRaw>>
    /\ IF ConversationRepository_get(conversations, c) = {}
          THEN /\ last' = [op |-> "send", status |-> 404, worker |-> "nobody",
                           conv |-> c, pre |-> {}]
               /\ UNCHANGED <<watchVars, requests, nSends>>
          ELSE LET conversation == CHOOSE r \in conversations : r.id = c
                   raw == conversation.raw_conversation_id
                   q == [id |-> nSends + 1, conv |-> c,
                         worker |-> conversation.worker_id,
                         mode |-> IF raw = NULL THEN "start" ELSE "resume",
                         raw |-> raw, after |-> firstRaw[c]]
               IN IF handlers(worker_type(conversation.worker_id)) = "OpenCodeWorker"
                  THEN \* except Exception around start_conversation
                       /\ last' = [op |-> "send", status |-> 500,
                                   worker |-> conversation.worker_id, conv |-> c,
                                   pre |-> [req |-> q, raw |-> NULL, exit |-> Exit0,
                                            sync |-> OpenCodeWorker_raises,
                                            detail |-> <<OpenCodeWorker_raises>>]]
                       /\ UNCHANGED <<watchVars, requests, nSends>>
                  ELSE
                  /\ watching' = TRUE
                  /\ _file_manager' = "fm"
                  /\ IF raw = NULL
                        THEN UNCHANGED <<active_sessions, conv_manager_ref>>
                        ELSE /\ active_sessions' = activate_session(active_sessions,
                                                       raw, c, conversation.worker_id)
                             /\ conv_manager_ref' = TRUE
                  /\ requests' = requests \cup {q}
                  /\ nSends' = nSends + 1
                  /\ last' = [op |-> "send_begin", status |-> 0,
                              worker |-> conversation.worker_id, conv |-> c,
                              pre |-> q]

\* bytes.decode(): strict UTF-8, UnicodeDecodeError on other bytes.
decode(exit) ==
    IF exit.utf8 THEN [raises |-> FALSE, text |-> exit.stderr]
    ELSE [raises |-> TRUE, text |-> "'utf-8' codec can't decode byte"]

\* The detail of the 500 answer to a vendor failure (claude.py 132-134,
\* 184-186; conversations.py 263-264, 280-281), as its parts in order.
FailureDetail(mode, exit) ==
    <<IF mode = "start" THEN "Failed to start conversation: "
      ELSE "Failed to continue conversation: ">>
    \o (IF decode(exit).raises THEN <<decode(exit).text>>
        ELSE <<"Claude Code failed: ", decode(exit).text>>)

\* What the immediate sync of create_input can raise.
SyncErrors == {"none", "sync_raises", "save_raises"}

\* Mutant: an error of the immediate sync fails the send.
sync_error_propagates(err) == err # "none"

\* create_input, lines 298-299: "except Exception: pass".
sync_error_is_fatal(err) == FALSE

\* Mutant: the handler makes no sync of its own.
ImmediateSync_left_to_watch(st, c, msgs, err) == st

\* create_input, lines 294-299.  sync_raises: sync_messages raised;
\* save_raises: save_messages raised at its first write, after open(path,
\* "w") had emptied the file.
ImmediateSync(st, c, msgs, err) ==
    IF err = "sync_raises" \/ msgs = <<>> THEN st
    ELSE IF err = "save_raises"
       THEN [st EXCEPT !.messages[c] = [exists |-> TRUE, lines |-> <<>>]]
    ELSE ConversationManager_save_messages(st, c, msgs)

\* create_input, lines 257-321, after the vendor exited.  A non-zero exit
\* is answered 500 and nothing is changed.  Otherwise the vendor has
\* written out to the session's transcript (a new session in start mode);
\* the handler persists the raw id (start mode), registers the session,
\* syncs (err: what the sync raises), appends the input and touches
\* last_activity.  pre is the request, the raw id it ended with, the exit
\* of the vendor, the sync error and the detail of a 500 answer.
create_input_finish(q, exit, out, err, now) ==
    /\ q \in requests
    /\ requests' = requests \ {q}
    /\ UNCHANGED <<timeVars, wmVars, nextConvId, msgVars, svcVars, watching, _file_manager, nSends>>
    /\ IF exit.code # 0
          THEN /\ last' = [op |-> "send", status |-> 500, worker |-> q.worker,
                           conv |-> q.conv,
                           pre |-> [req |-> q, raw |-> NULL, exit |-> exit,
                                    sync |-> "none",
                                    detail |-> FailureDetail(q.mode, exit)]]
               /\ UNCHANGED <<conversations, fileVars, vendorVars,
                              active_sessions, conv_manager_ref, firstRaw>>
          ELSE LET actual_raw_id == IF q.mode = "start" THEN nextRawId ELSE q.raw
                   files == IF q.mode = "start"
                               THEN [sessionFiles EXCEPT ![actual_raw_id] =
                                        [exists |-> TRUE, lines |-> out]]
                               ELSE [sessionFiles EXCEPT ![actual_raw_id] =
                                        [exists |-> TRUE, lines |-> @.lines \o out]]
                   msgs == sync_messages(files, actual_raw_id, now)
                   saved == ImmediateSync(store, q.conv, msgs, err)
                   rows == IF q.mode = "start"
                              THEN UpdateRaw(conversations, q.conv, actual_raw_id)
                              ELSE conversations
                   fatal == sync_error_is_fatal(err)
               IN /\ q.mode = "start" => nextRawId <= MaxSessions
                  /\ Len(files[actual_raw_id].lines) <= MaxRecords
                  /\ err = "save_raises" => msgs # <<>>
                  /\ sessionFiles' = files
                  /\ nextRawId' = IF q.mode = "start" THEN nextRawId + 1 ELSE nextRawId
                  /\ conversations' = IF fatal THEN rows
                                      ELSE UpdateActivity(rows, q.conv, now)
                  /\ active_sessions' = activate_session(active_sessions,
                                            actual_raw_id, q.conv, q.worker)
                  /\ conv_manager_ref' = TRUE
                  /\ store' = IF fatal THEN saved
                              ELSE ConversationManager_add_input(saved, q.conv, now)
                  /\ firstRaw' = IF firstRaw[q.conv] = NULL
                                    THEN [firstRaw EXCEPT ![q.conv] = actual_raw_id]
                                    ELSE firstRaw
                  /\ last' = [op |-> "send", status |-> IF fatal THEN 500 ELSE 201,
                              worker |-> q.worker, conv |-> q.conv,
                              pre |-> [req |-> q, raw |-> actual_raw_id,
                                       exit |-> exit, sync |-> err,
                                       detail |-> <<>>]]

\* POST /api/v1/conversations/{conversation_id}/messages/sync.  pre holds
\* the count reported and, when the step before was a successful sync of
\* the same conversation (twice), what that sync reported and stored.
sync_conversation_messages(c, now) ==
    /\ UNCHANGED <<timeVars, wmVars, repoVars, msgVars, svcVars, vendorVars, active_sessions,
                   conv_manager_ref, reqVars>>
    /\ IF ConversationRepository_get(conversations, c) = {}
          THEN /\ last' = [op |-> "sync", status |-> 404, worker |-> "nobody",
                           conv |-> c, pre |-> {}]
               /\ UNCHANGED <<fileVars, watching, _file_manager>>
          ELSE LET conversation == CHOOSE r \in conversations : r.id = c
                   raw == conversation.raw_conversation_id
                   msgs == sync_messages(sessionFiles, raw, now)
                   twice == last.op = "sync" /\ last.status = 200 /\ last.conv = c
               IN IF raw = NULL
                     THEN /\ last' = [op |-> "sync", status |-> 400,
                                      worker |-> conversation.worker_id,
                                      conv |-> c, pre |-> {}]
                          /\ UNCHANGED <<fileVars, watching, _file_manager>>
                  ELSE IF handlers(worker_type(conversation.worker_id)) = "OpenCodeWorker"
                     THEN \* except NotImplementedError around sync_messages
                          /\ last' = [op |-> "sync", status |-> 501,
                                      worker |-> conversation.worker_id,
                                      conv |-> c, pre |-> {OpenCodeWorker_raises}]
                          /\ UNCHANGED <<fileVars, watching, _file_manager>>
                     ELSE /\ watching' = TRUE
                          /\ _file_manager' = "fm"
                          /\ store' = ConversationManager_save_messages(store, c, msgs)
                          /\ last' = [op |-> "sync", status |-> 200,
                                      worker |-> conversation.worker_id, conv |-> c,
                                      pre |-> [count |-> Len(msgs),
                                               twice |-> twice,
                                               prevCount |-> IF twice THEN last.pre.count ELSE 0,
                                               prevStored |-> store.messages[c].lines]]

InitApi ==
    /\ RepoInit
    /\ MsgInit
    /\ ApiInit
    /\ last = [op |-> "init", status |-> 0, worker |-> "nobody", conv |-> 0, pre |-> {}]

\* Time passes; the clock is monotone.
tick ==
    /\ clock + 1 \in Times
    /\ clock' = clock + 1
    /\ UNCHANGED <<repoVars, msgVars, svcVars, apiVars, wmVars, last>>

NextApi ==
    \/ \E w \in {"w1", "nobody"}, p \in Paths :
          nextConvId <= MaxApiConvs /\ create_conversation(w, p, clock)
    \/ \E c \in ConvIds : delete_conversation(c)
    \/ \E c \in ConvIds : nSends < MaxSends /\ create_input_begin(c)
    \/ \E q \in requests, exit \in {Exit0, ExitBoom}, out \in VendorOutputs :
          create_input_finish(q, exit, out, "none", clock)
    \/ \E c \in ConvIds : sync_conversation_messages(c, clock)
    \/ tick

SpecApi == InitApi /\ [][NextApi]_vars

\* The delete handler beside sends that may be in flight when it runs.
NextDelete ==
    \/ nextConvId <= MaxApiConvs /\ create_conversation("w1", "dir", clock)
    \/ \E c \in ConvIds : delete_conversation(c)
    \/ \E c \in ConvIds : nSends < MaxDeleteSends /\ create_input_begin(c)
    \/ \E q \in requests, exit \in {Exit0, ExitBoom}, out \in VendorOutputs :
          create_input_finish(q, exit, out, "none", clock)

SpecDelete == InitApi /\ [][NextDelete]_vars

(***************************************************************************)
(* Claims on the send, sync and delete handlers (SpecApi, SpecDelete).     *)
(***************************************************************************)
IsSync == last.op = "sync" /\ last.status = 200

\* C4: running sync on a conversation twice in a row with no new vendor
\* output in between leaves the same stored messages and reports the same
\* total message count both times.
C4_SyncTwiceSame ==
    (IsSync /\ last.pre.twice) =>
        /\ last.pre.count = last.pre.prevCount
        /\ store.messages[last.conv].lines = last.pre.prevStored

\* C7: the first successful send to a conversation without raw id runs
\* the vendor in start mode and persists the raw id it returns; every send
\* begun after that runs the vendor in resume mode with exactly that raw id.
C7_StartOnceThenResume ==
    /\ \A q \in requests :
          /\ q.raw = NULL <=> q.mode = "start"
          /\ q.after # NULL => (q.mode = "resume" /\ q.raw = q.after)
    /\ (last.op = "send" /\ last.status = 201 /\ last.pre.req.mode = "start")
          => \A r \in conversations :
                r.id = last.conv => r.raw_conversation_id = last.pre.raw

\* C9: deleting an existing conversation removes its row and both of its
\* JSONL files, and a get of a removed conversation finds nothing from
\* then on.
C9_DeleteRemovesRecordAndFiles ==
    /\ []( (last.op = "delete" /\ last.status = 200)
              => /\ ConversationRepository_get(conversations, last.conv) = {}
                 /\ FilesOf(store, last.conv) = {} )
    /\ [][ \A c \in ConvIds :
              (c < nextConvId /\ ConversationRepository_get(conversations, c) = {})
                 => ConversationRepository_get(conversations', c) = {} ]_vars

\* A delete of a conversation that had both files, while another
\* conversation keeps its own.
C9_Witness ==
    /\ last.op = "delete"
    /\ last.status = 200
    /\ last.pre = {"input", "messages"}
    /\ \E r \in conversations : FilesOf(store, r.id) = {"input", "messages"}

(***************************************************************************)
(* The session watch beside the handlers: the vendor appends to its        *)
(* transcripts at any time, the directory watch reports changes, and the   *)
(* class-level state may be cleared.                                       *)
(***************************************************************************)
InitWatch ==
    /\ RepoInit
    /\ MsgInit
    /\ ApiInit
    /\ last = [op |-> "init", status |-> 0, worker |-> "nobody", conv |-> 0, pre |-> {}]

NextWatch ==
    \/ nextConvId <= MaxWatchConvs /\ create_conversation("w1", "dir", clock)
    \/ \E c \in ConvIds : nSends < MaxWatchSends /\ create_input_begin(c)
    \/ \E q \in requests, exit \in {Exit0, ExitBoom}, out \in VendorOutputs :
          create_input_finish(q, exit, out, "none", clock)
    \/ \E c \in ConvIds : sync_conversation_messages(c, clock)
    \/ \E r \in RawIds, l \in RawLines : vendor_write(r, l)
    \/ \E r \in RawIds, x \in Suffixes : _on_session_changed(r, x, clock)
    \/ stop_watching
    \/ tick

SpecWatch == InitWatch /\ [][NextWatch]_vars

(***************************************************************************)
(* Claims on the session watch (SpecWatch).                                *)
(***************************************************************************)
\* The messages file of conversation c holds one line per parsed record of
\* the transcript, in order, with the record's identifier, type and
\* content blocks.
Delivered(st, c, file) ==
    /\ Len(st.messages[c].lines) = Len(ParsedLines(file))
    /\ \A i \in DOMAIN ParsedLines(file) :
          /\ i \in DOMAIN st.messages[c].lines
          /\ st.messages[c].lines[i].uuid = MessageUuid(ParsedLines(file)[i])
          /\ st.messages[c].lines[i].type = ParsedLines(file)[i].type
          /\ st.messages[c].lines[i].contents = MessageContents(ParsedLines(file)[i])

\* C10: a change to a session file whose stem is not registered causes no
\* fetch and no save; a change to a registered session file delivers all
\* of the session's records as normalized messages to the conversation
\* the session was registered for.
C10_WatchFiltersAndDelivers ==
    [][ (last'.op = "event" /\ last'.pre.suffix = ".jsonl") =>
            IF ~last'.pre.registered
               THEN last'.status = 0 /\ store' = store
               ELSE ParsedLines(sessionFiles'[last'.pre.raw]) # <<>>
                       => Delivered(store', last'.conv, sessionFiles'[last'.pre.raw])
      ]_vars

(***************************************************************************)
(* The v1 WorkerManager: one ConversationRunner, and through its           *)
(* ProcessHandler one vendor subprocess, per running conversation.  A      *)
(* start suspends in runner.start() (create_subprocess_exec) and a stop    *)
(* in runner.stop() (process.wait); each is split there.                   *)
(***************************************************************************)
\* DatabaseManager.create_conversation: clear the worker's current flag,
\* then INSERT.
DatabaseManager_create_conversation(tbl, row) ==
    UnsetCurrent(tbl, row.worker_id) \cup {row}

\* conversation_id in self.conversations
IsRegistered(reg, c) == \E e \in reg : e.conv = c
\* self.conversations[conversation_id] = runner
Register(reg, c, pid) == {e \in reg : e.conv # c} \cup {[conv |-> c, pid |-> pid]}
\* self.conversations.get(conversation_id), as the pid of the runner
RunnerOf(reg, c) == (CHOOSE e \in reg : e.conv = c).pid

\* The calls of one kind in flight for a conversation (starting is a
\* multiset: n numbers the equal calls).
InFlight(c, kind) == Cardinality({s \in starting : s.conv = c /\ s.kind = kind})
Suspend(c, kind) ==
    starting \cup {[conv |-> c, kind |-> kind, n |-> InFlight(c, kind) + 1]}

\* The subprocesses of conversation c that are not being terminated.
LiveOf(c) == {p \in procs : p.conv = c /\ p.pid \notin stopping}

\* new_conversation, lines 130-161: the row is written, then the runner
\* is started.
new_conversation_begin(w) ==
    /\ w \in db_workers
    /\ nextConvId <= MaxWMConvs
    /\ nextPid + Cardinality(starting) <= MaxPids
    /\ conversations' = DatabaseManager_create_conversation(conversations,
                            ConversationDO(nextConvId, w, TRUE, NULL, clock))
    /\ nextConvId' = nextConvId + 1
    /\ starting' = Suspend(nextConvId, "new")
    /\ last' = [op |-> "new_begin", status |-> 0, worker |-> w, conv |-> nextConvId,
                pre |-> {}]
    /\ UNCHANGED <<msgVars, svcVars, apiVars, timeVars, wsVars, wm_conversations, procs, stopping, nextPid>>

\* start_conversation, lines 229-252: True at once when the conversation
\* is registered, ValueError when the row is missing or of another worker,
\* else a runner is built and started.
start_conversation_begin(w, c, kind) ==
    /\ UNCHANGED <<repoVars, msgVars, svcVars, apiVars, timeVars, wsVars, wm_conversations, procs,
                   stopping, nextPid>>
    /\ IF IsRegistered(wm_conversations, c)
          THEN /\ last' = [op |-> "start", status |-> 200, worker |-> w, conv |-> c,
                           pre |-> {}]
               /\ UNCHANGED starting
       ELSE IF w \notin db_workers
                  \/ ~\E r \in conversations : r.id = c /\ r.worker_id = w
          THEN /\ last' = [op |-> "start", status |-> 404, worker |-> w, conv |-> c,
                           pre |-> {}]
               /\ UNCHANGED starting
       ELSE /\ nextPid + Cardinality(starting) <= MaxPids
            /\ starting' = Suspend(c, kind)
            /\ last' = [op |-> "start_begin", status |-> 0, worker |-> w, conv |-> c,
                        pre |-> {}]

\* The rest of new_conversation (162-163), start_conversation (253-257)
\* and, for a start made by send_message, of send_message (273-290), once
\* runner.start() returns: ProcessHandler.start has spawned a subprocess
\* (ok) or caught the spawn error; either way the runner is registered.
\* pre is the pid a send wrote to.
runner_started(s, ok) ==
    /\ s \in starting
    /\ s.n = InFlight(s.conv, s.kind)
    /\ starting' = starting \ {s}
    /\ procs' = IF ok THEN procs \cup {[pid |-> nextPid, conv |-> s.conv]} ELSE procs
    /\ nextPid' = IF ok THEN nextPid + 1 ELSE nextPid
    /\ wm_conversations' = Register(wm_conversations, s.conv, IF ok THEN nextPid ELSE NoPid)
    /\ last' = [op |-> s.kind, status |-> IF ok THEN 200 ELSE 500, worker |-> "nobody",
                conv |-> s.conv,
                pre |-> IF s.kind = "send" /\ ok THEN {nextPid} ELSE {}]
    /\ UNCHANGED <<repoVars, msgVars, svcVars, apiVars, timeVars, wsVars, stopping>>

\* send_message, lines 269-290: start the conversation first when it is
\* not registered, else write to the stdin of the registered runner's
\* process (ProcessHandler.send_message refuses without a process).
send_message(w, c) ==
    IF IsRegistered(wm_conversations, c)
       THEN /\ last' = [op |-> "send",
                        status |-> IF RunnerOf(wm_conversations, c) = NoPid
                                      THEN 500 ELSE 200,
                        worker |-> w, conv |-> c,
                        pre |-> {RunnerOf(wm_conversations, c)} \ {NoPid}]
            /\ UNCHANGED <<repoVars, msgVars, svcVars, apiVars, timeVars, wmVars>>
       ELSE start_conversation_begin(w, c, "send")

\* stop_conversation / _stop_conversation, lines 261-368: pop the runner
\* and terminate its process.
stop_conversation_begin(c) ==
    /\ IsRegistered(wm_conversations, c)
    /\ wm_conversations' = {e \in wm_conversations : e.conv # c}
    /\ stopping' = stopping \cup ({RunnerOf(wm_conversations, c)} \ {NoPid})
    /\ last' = [op |-> "stop_begin", status |-> 0, worker |-> "nobody", conv |-> c,
                pre |-> {}]
    /\ UNCHANGED <<repoVars, msgVars, svcVars, apiVars, timeVars, wsVars, procs, starting, nextPid>>

\* ProcessHandler.stop, lines 100-118: the process has exited.
stop_conversation_finish(pid) ==
    /\ pid \in stopping
    /\ stopping' = stopping \ {pid}
    /\ procs' = {p \in procs : p.pid # pid}
    /\ last' = [op |-> "stop", status |-> 200, worker |-> "nobody", conv |-> 0,
                pre |-> {}]
    /\ UNCHANGED <<repoVars, msgVars, svcVars, apiVars, timeVars, wsVars, wm_conversations, starting,
                   nextPid>>

InitWM ==
    /\ RepoInit
    /\ MsgInit
    /\ ApiInit
    /\ last = [op |-> "init", status |-> 0, worker |-> "nobody", conv |-> 0, pre |-> {}]

\* The ids a client may name: new_conversation has returned them.
Returned == {c \in ConvIds : c < nextConvId /\ InFlight(c, "new") = 0}

NextWM ==
    \/ \E w \in Workers : new_conversation_begin(w)
    \/ \E w \in Workers, c \in Returned : start_conversation_begin(w, c, "start")
    \/ \E s \in starting, ok \in BOOLEAN : runner_started(s, ok)
    \/ \E w \in Workers, c \in Returned : send_message(w, c)
    \/ \E c \in ConvIds : stop_conversation_begin(c)
    \/ \E pid \in stopping : stop_conversation_finish(pid)

SpecWM == InitWM /\ [][NextWM]_vars

(***************************************************************************)
(* Claims on the WorkerManager (SpecWM).                                   *)
(***************************************************************************)
\* C8: at every moment a conversation has at most one live subprocess,
\* also while start or send requests for it overlap, and no subprocess
\* serves two conversations.
C8_OneLiveSubprocess ==
    /\ \A c \in ConvIds : Cardinality(LiveOf(c)) <= 1
    /\ \A e, f \in wm_conversations :
          (e.pid = f.pid /\ e.pid # NoPid) => e.conv = f.conv
    /\ \A p, q \in procs : p.pid = q.pid => p.conv = q.conv


(***************************************************************************)
(* ProcessHandler (py-worker/app/services/process_handler.py) with the     *)
(* OpenCodeAdapter: one handler object, its subprocess and its stdout      *)
(* reader task.  start() and stop() are split at their awaits.  A line is  *)
(* the text the child wrote, without its newline.                          *)
(***************************************************************************)
Obj1 == "{\"n\":1}"
Obj2 == "{\"n\":2}"
EmptyObj == "{}"
Garbage == "not json"
\* "[[[[" stands for a line of 2000 opening brackets and nothing else.
DeepUnclosed == "[[[["
OutLines == {Obj1, Obj2, EmptyObj, Garbage, DeepUnclosed}

\* The JSON grammar: the lines that are JSON texts.
WellFormed(line) == line \in {Obj1, Obj2, EmptyObj}

\* json.loads: a dict is the set of its key/value pairs.  A text nested
\* deeper than the interpreter's recursion limit raises RecursionError
\* before the scanner reaches the place where the text is malformed.
json_loads(line) ==
    CASE line = Obj1 -> [exc |-> "none", value |-> {<<"n", 1>>}]
      [] line = Obj2 -> [exc |-> "none", value |-> {<<"n", 2>>}]
      [] line = EmptyObj -> [exc |-> "none", value |-> {}]
      [] line = DeepUnclosed -> [exc |-> "RecursionError", value |-> {}]
      [] OTHER -> [exc |-> "JSONDecodeError", value |-> {}]

\* OpenCodeAdapter.parse_output: only json.JSONDecodeError is caught.
parse_output(line) ==
    LET r == json_loads(line)
    IN IF line = "" THEN [raises |-> "none", none |-> TRUE, value |-> {}]
       ELSE IF r.exc = "JSONDecodeError"
               THEN [raises |-> "none", none |-> TRUE, value |-> {}]
       ELSE IF r.exc # "none"
               THEN [raises |-> r.exc, none |-> FALSE, value |-> {}]
       ELSE [raises |-> "none", none |-> FALSE, value |-> r.value]

\* Python truth of a parse result: None and the empty dict are false.
Truthy(r) == ~r.none /\ r.value # {}

ReaderDone == reader \in {"none", "eof", "cancelled", "error"}

\* The child writes a line to its stdout.
child_write(line) ==
    /\ child.state = "running"
    /\ Len(emitted) < MaxLines
    /\ stdout' = Append(stdout, line)
    /\ emitted' = Append(emitted, line)
    /\ UNCHANGED <<notPH, handlerVars,
                   child, reader, delivered, startPc, stopPc, signals, nSpawns,
                   last>>

\* The child exits, on its own or because of a signal it received.
child_exit ==
    /\ child.state = "running"
    /\ child' = [child EXCEPT !.state = "exited"]
    /\ UNCHANGED <<notPH, handlerVars,
                   reader, stdout, emitted, delivered, startPc, stopPc, signals,
                   nSpawns, last>>

\* The event loop has seen the exit and the end of every pipe: the
\* subprocess transport is finished and forgets its process.
transport_closed ==
    /\ child.state = "exited"
    /\ child' = [child EXCEPT !.state = "closed", !.stdin = "closed"]
    /\ UNCHANGED <<notPH, handlerVars,
                   reader, stdout, emitted, delivered, startPc, stopPc, signals,
                   nSpawns, last>>

\* One iteration of the loop of _read_stdout over get_output_stream.
_read_stdout ==
    /\ reader = "running"
    /\ stdout # <<>>
    /\ LET r == parse_output(Head(stdout))
       IN /\ stdout' = Tail(stdout)
          /\ IF r.raises # "none"
                THEN reader' = "error" /\ UNCHANGED delivered
             ELSE IF Truthy(r)
                THEN delivered' = Append(delivered, r.value) /\ UNCHANGED reader
             ELSE UNCHANGED <<reader, delivered>>
    /\ UNCHANGED <<notPH, handlerVars,
                   child, emitted, startPc, stopPc, signals, nSpawns, last>>

\* readline() returns b"" at the end of the stream: the loop ends.
reader_eof ==
    /\ reader = "running"
    /\ stdout = <<>>
    /\ child.state \in {"exited", "closed"}
    /\ reader' = "eof"
    /\ UNCHANGED <<notPH, handlerVars,
                   child, stdout, emitted, delivered, startPc, stopPc, signals,
                   nSpawns, last>>

\* CancelledError arrives at the task's await and ends it.
reader_cancelled ==
    /\ reader = "cancelling"
    /\ reader' = "cancelled"
    /\ UNCHANGED <<notPH, handlerVars,
                   child, stdout, emitted, delivered, startPc, stopPc, signals,
                   nSpawns, last>>

\* The three attributes of the handler as one record.
Handler == [process |-> process, output_task |-> output_task,
            is_running |-> is_running]

SetHandler(h) ==
    /\ process' = h.process
    /\ output_task' = h.output_task
    /\ is_running' = h.is_running

\* Mutant: is_alive does not look at the exit code.
is_alive_ignores_returncode == is_running /\ process # NoPid

\* ProcessHandler.is_alive.  process.returncode is None until the exit is
\* reported; the child's exit and its report are one step (child_exit).
is_alive == is_running /\ process # NoPid /\ child.state = "running"

\* Mutant: a failed spawn leaves the handler marked running.
start_except_marks_running(h) == [h EXCEPT !.is_running = TRUE]

\* The except branch of start().
start_except(h) == [h EXCEPT !.is_running = FALSE]

\* start() up to its await of create_subprocess_exec.
start_begin ==
    /\ startPc = "idle"
    /\ IF is_running
          THEN /\ last' = [op |-> "start", status |-> "false", pre |-> "running"]
               /\ UNCHANGED startPc
          ELSE /\ startPc' = "spawning"
               /\ last' = [op |-> "start_begin", status |-> "", pre |-> ""]
    /\ UNCHANGED <<notPH, handlerVars,
                   osVars, stopPc, signals, nSpawns>>

\* create_subprocess_exec returns the process (ok) or raises.
start_finish(ok) ==
    /\ startPc = "spawning"
    /\ startPc' = "idle"
    /\ IF ok
          THEN /\ SetHandler([process |-> nSpawns + 1, output_task |-> "task",
                              is_running |-> TRUE])
               /\ nSpawns' = nSpawns + 1
               /\ child' = [state |-> "running", stdin |-> "open", received |-> <<>>]
               /\ reader' = "running"
               /\ stdout' = <<>>
               /\ emitted' = <<>>
               /\ delivered' = <<>>
               /\ last' = [op |-> "start", status |-> "true", pre |-> "spawned"]
          ELSE /\ SetHandler(start_except(Handler))
               /\ last' = [op |-> "start", status |-> "false",
                           pre |-> "spawn_error"]
               /\ UNCHANGED <<osVars, nSpawns>>
    /\ UNCHANGED <<notPH, stopPc, signals>>

\* Mutant: stop() never waits for the reader task.
no_reader_to_await(task, rd) == FALSE

\* stop(): "if self.output_task and not self.output_task.done()"
reader_to_await(task, rd) ==
    task # "None" /\ rd \notin {"none", "eof", "cancelled", "error"}

\* Mutant: the references are cleared only when stopping raised nothing.
stop_cleanup_unless_error(h, path) ==
    IF path = "error" THEN h
    ELSE [process |-> NoPid, output_task |-> "None", is_running |-> FALSE]

\* The finally block of stop().
stop_finally(h, path) ==
    [process |-> NoPid, output_task |-> "None", is_running |-> FALSE]

\* stop() ends on the given path.
StopEnds(path, sigs) ==
    /\ SetHandler(stop_finally(Handler, path))
    /\ stopPc' = "idle"
    /\ signals' = sigs
    /\ last' = [op |-> "stop", status |-> path, pre |-> "running"]

Signal(sig, timed_out) ==
    [sig |-> sig, reader |-> reader, child |-> child.state,
     timed_out |-> timed_out]

\* stop() from "if self.process" to its await of wait_for(process.wait()).
\* terminate() raises ProcessLookupError once the transport is finished.
TerminateProcess(sigs) ==
    IF process = NoPid THEN StopEnds("graceful", sigs)
    ELSE IF child.state = "closed" THEN StopEnds("error", sigs)
    ELSE /\ signals' = Append(sigs, Signal("terminate", FALSE))
         /\ stopPc' = "await_wait"
         /\ last' = [op |-> "stop_begin", status |-> "", pre |-> ""]
         /\ UNCHANGED handlerVars

\* stop() up to its first await.
stop_begin ==
    /\ stopPc = "idle"
    /\ IF ~is_running
          THEN /\ last' = [op |-> "stop", status |-> "not_running",
                           pre |-> "not_running"]
               /\ UNCHANGED <<handlerVars, reader, stopPc, signals>>
       ELSE IF reader_to_await(output_task, reader)
          THEN /\ reader' = "cancelling"
               /\ stopPc' = "await_task"
               /\ signals' = <<>>
               /\ last' = [op |-> "stop_begin", status |-> "", pre |-> ""]
               /\ UNCHANGED handlerVars
       ELSE TerminateProcess(<<>>) /\ UNCHANGED reader
    /\ UNCHANGED <<notPH, child, stdout,
                   emitted, delivered, startPc, nSpawns>>

\* "await self.output_task" returns.
stop_task_done ==
    /\ stopPc = "await_task"
    /\ ReaderDone
    /\ TerminateProcess(signals)
    /\ UNCHANGED <<notPH, osVars,
                   startPc, nSpawns>>

\* wait_for(process.wait(), 5.0) returns: the child has exited.
stop_wait_returns ==
    /\ stopPc = "await_wait"
    /\ child.state # "running"
    /\ StopEnds("graceful", signals)
    /\ UNCHANGED <<notPH, osVars,
                   startPc, nSpawns>>

\* wait_for raises TimeoutError: the child is still running after 5 s.
stop_timeout ==
    /\ stopPc = "await_wait"
    /\ child.state = "running"
    /\ signals' = Append(signals, Signal("kill", TRUE))
    /\ stopPc' = "await_kill"
    /\ UNCHANGED <<notPH, handlerVars,
                   osVars, startPc, nSpawns, last>>

\* "await self.process.wait()" after the kill returns.
stop_kill_returns ==
    /\ stopPc = "await_kill"
    /\ child.state # "running"
    /\ StopEnds("killed", signals)
    /\ UNCHANGED <<notPH, osVars,
                   startPc, nSpawns>>

\* The child closes its standard input and keeps running.
child_close_stdin ==
    /\ child.state = "running"
    /\ child.stdin = "open"
    /\ child' = [child EXCEPT !.stdin = "closed"]
    /\ UNCHANGED <<notPH, handlerVars,
                   reader, stdout, emitted, delivered, startPc, stopPc, signals,
                   nSpawns, last>>

\* Messages handed to send_message.
Texts == {"hi", ""}

\* OpenCodeAdapter.format_input
format_input(message) == message \o "\n"

\* stdin.write followed by "await stdin.drain()": os.write on the pipe
\* fails with EPIPE when nobody holds its read end, and drain() then raises
\* ConnectionResetError; so it does when the transport was closed before.
write_and_drain_raises(ch) == ch.state # "running" \/ ch.stdin # "open"

\* Mutant: a failed write is reported as success.
send_except_returns_true == "true"

\* The except branch of send_message.
send_except == "false"

\* ProcessHandler.send_message; pre holds the handler, the child and the
\* message as they were at the call.
ProcessHandler_send_message(message) ==
    /\ last' = [op |-> "send",
                status |-> IF ~is_running \/ process = NoPid \/ child.stdin = "none"
                              THEN "false"
                           ELSE IF write_and_drain_raises(child) THEN send_except
                           ELSE "true",
                pre |-> [handler |-> Handler, child |-> child, message |-> message]]
    /\ IF is_running /\ process # NoPid /\ child.stdin # "none"
          /\ ~write_and_drain_raises(child)
          THEN child' = [child EXCEPT !.received = Append(@, format_input(message))]
          ELSE UNCHANGED child
    /\ UNCHANGED <<notPH, handlerVars,
                   reader, stdout, emitted, delivered, startPc, stopPc, signals,
                   nSpawns>>

InitPH ==
    /\ RepoInit
    /\ MsgInit
    /\ ApiInit
    /\ last = [op |-> "init", status |-> "", pre |-> ""]

NextPH ==
    \/ nSpawns < MaxSpawns /\ start_begin
    \/ \E ok \in BOOLEAN : start_finish(ok)
    \/ \E line \in OutLines : child_write(line)
    \/ child_exit
    \/ transport_closed
    \/ _read_stdout
    \/ reader_eof
    \/ reader_cancelled
    \/ stop_begin
    \/ stop_task_done
    \/ stop_wait_returns
    \/ stop_timeout
    \/ stop_kill_returns

SpecPH == InitPH /\ [][NextPH]_vars

\* The lines the reader has taken from the pipe so far.
Consumed == SubSeq(emitted, 1, Len(emitted) - Len(stdout))

ValuesOf(lines) == [i \in 1..Len(lines) |-> json_loads(lines[i]).value]

\* C12: a malformed output line makes parse_output return None without
\* raising and does not end the read loop: when the reader has met a
\* malformed line, it has not stopped on an error and has delivered every
\* well-formed line it took from the pipe, before and after, in order.
C12_MalformedLineSkipped ==
    \A i \in 1..Len(Consumed) :
       ~WellFormed(Consumed[i])
          => /\ parse_output(Consumed[i]).raises = "none"
             /\ parse_output(Consumed[i]).none
             /\ reader # "error"
             /\ delivered = ValuesOf(SelectSeq(Consumed, WellFormed))

\* C13: when stop() has finished on a running handler, the process
\* reference and the reader-task reference are cleared and the handler is
\* marked not running, whether the child exited after the terminate signal,
\* was killed after the timeout, or stopping raised an error.
C13_StopClearsReferences ==
    (last.op = "stop" /\ last.pre = "running")
       => /\ last.status \in {"graceful", "killed", "error"}
          /\ process = NoPid
          /\ output_task = "None"
          /\ ~is_running

\* stop() ended on its error path: terminate() raised for a child whose
\* transport was finished, after the reader task had been awaited.
C13_Witness ==
    /\ last.op = "stop"
    /\ last.pre = "running"
    /\ last.status = "error"
    /\ reader = "cancelled"

\* C14: stop() sends the terminate signal only when the stdout-reader task
\* has finished (its cancellation was awaited), and sends the kill signal
\* only after the terminate signal, after the 5-second wait timed out with
\* the child still running.
C14_StopOrder ==
    \A i \in 1..Len(signals) :
       /\ signals[i].sig = "terminate"
             => signals[i].reader \in {"none", "eof", "cancelled", "error"}
       /\ signals[i].sig = "kill"
             => /\ i > 1
                /\ signals[i - 1].sig = "terminate"
                /\ signals[i].timed_out
                /\ signals[i].child = "running"

\* A stop that cancelled a running reader, terminated and then killed.
C14_Witness ==
    /\ Len(signals) = 2
    /\ signals[1].sig = "terminate"
    /\ signals[1].reader = "cancelled"
    /\ signals[2].sig = "kill"

\* C20: when spawning the subprocess fails, start() returns False without
\* raising and the handler is not running: is_running and is_alive() are
\* false, and there is no reader task.
C20_SpawnErrorReturnsFalse ==
    (last.op = "start" /\ last.pre = "spawn_error")
       => /\ last.status = "false"
          /\ ~is_running
          /\ ~is_alive
          /\ output_task = "None"
          /\ ReaderDone

\* A spawn error on a handler that had run and been stopped before.
C20_Witness ==
    /\ last.op = "start"
    /\ last.pre = "spawn_error"
    /\ nSpawns = 1

(***************************************************************************)
(* FileManager (pyworker/app/services/file_manager.py).  Its methods are   *)
(* synchronous; a watch task is suspended either in awatch ("waiting") or  *)
(* in the callback it awaits ("in_callback").  task.cancel() only requests *)
(* the cancellation ("cancelling"): the task ends when the event loop      *)
(* runs it again.                                                          *)
(***************************************************************************)
TheDir == "d"
Dirs == {TheDir}
Files == {"d/f"}
Callbacks == {"cb1", "cb2"}
\* callback=None of unwatch and unwatch_directory
AnyCallback == "None"

\* str(Path(p).parent)
parent(p) == TheDir

\* dict operations
Put(dict, k, v) == [x \in DOMAIN dict \cup {k} |-> IF x = k THEN v ELSE dict[x]]
Del(dict, k) == [x \in DOMAIN dict \ {k} |-> dict[x]]
Get(dict, k, default) == IF k \in DOMAIN dict THEN dict[k] ELSE default

Without(cbs, cb) == SelectSeq(cbs, LAMBDA x : x # cb)
Elems(seq) == {seq[i] : i \in 1..Len(seq)}

\* asyncio.create_task(self._dir_watch_loop(d)) / self._watch_loop(d)
NewTask(kind, d) ==
    [kind |-> kind, dir |-> d, state |-> "waiting", cur |-> "", path |-> "",
     queue |-> <<>>]

\* task.cancel(): a request; a finished task ignores it.
cancel(ts, id) ==
    [ts EXCEPT ![id].state = IF @ = "done" THEN "done" ELSE "cancelling",
               ![id].queue = <<>>, ![id].cur = "", ![id].path = ""]

\* FileManager.start
FileManager_start ==
    /\ _running' = TRUE
    /\ last' = [op |-> "fm_start", status |-> "", pre |-> ""]
    /\ UNCHANGED <<notFM, _watches, _dir_watches, _dir_tasks, tasks>>

\* FileManager.watch_directory
watch_directory(d, cb) ==
    /\ _dir_watches' = Put(_dir_watches, d, Append(Get(_dir_watches, d, <<>>), cb))
    /\ IF d \notin DOMAIN _dir_tasks /\ _running
          THEN /\ Len(tasks) < MaxTasks
               /\ tasks' = Append(tasks, NewTask("dir", d))
               /\ _dir_tasks' = Put(_dir_tasks, d, Len(tasks) + 1)
          ELSE UNCHANGED <<tasks, _dir_tasks>>
    /\ last' = [op |-> "watch_directory", status |-> cb, pre |-> d]
    /\ UNCHANGED <<notFM, _running, _watches>>

\* FileManager.watch
watch(f, cb) ==
    /\ _watches' = Put(_watches, f, Append(Get(_watches, f, <<>>), cb))
    /\ IF parent(f) \notin DOMAIN _dir_tasks /\ _running
          THEN /\ Len(tasks) < MaxTasks
               /\ tasks' = Append(tasks, NewTask("file", parent(f)))
               /\ _dir_tasks' = Put(_dir_tasks, parent(f), Len(tasks) + 1)
          ELSE UNCHANGED <<tasks, _dir_tasks>>
    /\ last' = [op |-> "watch", status |-> cb, pre |-> f]
    /\ UNCHANGED <<notFM, _running, _dir_watches>>

\* FileManager.unwatch_directory
unwatch_directory(d, cb) ==
    /\ last' = [op |-> "unwatch_directory", status |-> cb, pre |-> d]
    /\ IF d \notin DOMAIN _dir_watches
          THEN UNCHANGED <<_dir_watches, _dir_tasks, tasks>>
          ELSE LET left == IF cb = AnyCallback THEN <<>>
                           ELSE Without(_dir_watches[d], cb)
                   dw == IF left = <<>> THEN Del(_dir_watches, d)
                         ELSE Put(_dir_watches, d, left)
                   has_file_watches == \E p \in DOMAIN _watches : parent(p) = d
               IN /\ _dir_watches' = dw
                  /\ IF d \notin DOMAIN dw /\ ~has_file_watches
                        /\ d \in DOMAIN _dir_tasks
                        THEN /\ tasks' = cancel(tasks, _dir_tasks[d])
                             /\ _dir_tasks' = Del(_dir_tasks, d)
                        ELSE UNCHANGED <<_dir_tasks, tasks>>
    /\ UNCHANGED <<notFM, _running, _watches>>

\* FileManager.unwatch
unwatch(f, cb) ==
    /\ last' = [op |-> "unwatch", status |-> cb, pre |-> f]
    /\ IF f \notin DOMAIN _watches
          THEN UNCHANGED <<_watches, _dir_tasks, tasks>>
          ELSE LET left == IF cb = AnyCallback THEN <<>>
                           ELSE Without(_watches[f], cb)
                   w == IF left = <<>> THEN Del(_watches, f)
                        ELSE Put(_watches, f, left)
                   has_watches_in_dir ==
                       \E p \in DOMAIN w : parent(p) = parent(f)
               IN /\ _watches' = w
                  /\ IF ~has_watches_in_dir /\ parent(f) \in DOMAIN _dir_tasks
                        THEN /\ tasks' = cancel(tasks, _dir_tasks[parent(f)])
                             /\ _dir_tasks' = Del(_dir_tasks, parent(f))
                        ELSE UNCHANGED <<_dir_tasks, tasks>>
    /\ UNCHANGED <<notFM, _running, _dir_watches>>

RECURSIVE cancel_all(_, _)
cancel_all(ts, ids) ==
    IF ids = {} THEN ts
    ELSE LET id == CHOOSE x \in ids : TRUE
         IN cancel_all(cancel(ts, id), ids \ {id})

\* FileManager.stop
FileManager_stop ==
    /\ _running' = FALSE
    /\ tasks' = cancel_all(tasks, {_dir_tasks[d] : d \in DOMAIN _dir_tasks})
    /\ _dir_tasks' = <<>>
    /\ _watches' = <<>>
    /\ _dir_watches' = <<>>
    /\ last' = [op |-> "fm_stop", status |-> "", pre |-> ""]
    /\ UNCHANGED notFM

\* Is cb registered for the event the task is serving?
IsServed(t, cb) ==
    IF t.kind = "dir" THEN cb \in Elems(Get(_dir_watches, t.dir, <<>>))
    ELSE cb \in Elems(Get(_watches, t.path, <<>>))

\* The task calls the next callback of its snapshot and is suspended in it.
Invoke(id, t, path, cbs) ==
    /\ tasks' = [tasks EXCEPT ![id] = [t EXCEPT !.state = "in_callback",
                                                !.cur = Head(cbs),
                                                !.path = path,
                                                !.queue = Tail(cbs)]]
    /\ last' = [op |-> "callback", status |-> Head(cbs),
                pre |-> [task |-> id,
                         served |-> IsServed([t EXCEPT !.path = path], Head(cbs))]]

\* awatch yields a change of path: _dir_watch_loop / _watch_loop take
\* list(...) of the callbacks and await the first one.
fs_change(id, path) ==
    /\ id \in DOMAIN tasks
    /\ tasks[id].state = "waiting"
    /\ LET t == tasks[id]
           cbs == IF t.kind = "dir" THEN Get(_dir_watches, t.dir, <<>>)
                  ELSE Get(_watches, path, <<>>)
       IN /\ cbs # <<>>
          /\ Invoke(id, t, path, cbs)
    /\ UNCHANGED <<notFM, _running, _watches, _dir_watches, _dir_tasks>>

\* The awaited callback returns: the loop goes on with its snapshot.
callback_returns(id) ==
    /\ id \in DOMAIN tasks
    /\ tasks[id].state = "in_callback"
    /\ LET t == tasks[id]
       IN IF t.queue # <<>>
             THEN Invoke(id, t, t.path, t.queue)
             ELSE /\ tasks' = [tasks EXCEPT ![id] = NewTask(t.kind, t.dir)]
                  /\ UNCHANGED last
    /\ UNCHANGED <<notFM, _running, _watches, _dir_watches, _dir_tasks>>

\* CancelledError is delivered at the task's await: the loop ends.
task_cancelled(id) ==
    /\ id \in DOMAIN tasks
    /\ tasks[id].state = "cancelling"
    /\ tasks' = [tasks EXCEPT ![id].state = "done"]
    /\ UNCHANGED <<notFM, _running, _watches, _dir_watches, _dir_tasks, last>>

InitFM ==
    /\ RepoInit
    /\ MsgInit
    /\ ApiInit
    /\ last = [op |-> "init", status |-> "", pre |-> ""]

CallbackCount(dict) ==
    IF DOMAIN dict = {} THEN 0 ELSE Len(dict[CHOOSE k \in DOMAIN dict : TRUE])

NextFM ==
    \/ FileManager_start
    \/ FileManager_stop
    \/ \E d \in Dirs, cb \in Callbacks :
          CallbackCount(_dir_watches) < MaxCallbacks /\ watch_directory(d, cb)
    \/ \E d \in Dirs, cb \in Callbacks \cup {AnyCallback} : unwatch_directory(d, cb)
    \/ \E f \in Files, cb \in Callbacks :
          CallbackCount(_watches) < MaxCallbacks /\ watch(f, cb)
    \/ \E f \in Files, cb \in Callbacks \cup {AnyCallback} : unwatch(f, cb)
    \/ \E id \in 1..MaxTasks, f \in Files : fs_change(id, f)
    \/ \E id \in 1..MaxTasks : callback_returns(id)
    \/ \E id \in 1..MaxTasks : task_cancelled(id)

SpecFM == InitFM /\ [][NextFM]_vars

\* C15: tearing down a directory watch, a file watch or the file manager
\* awaits the cancellation of each watch task before the registration is
\* removed: a task that is no longer registered has finished, and every
\* callback a task calls is still registered for what the task serves.
C15_TeardownAwaitsCancellation ==
    /\ \A id \in DOMAIN tasks :
          id \notin {_dir_tasks[d] : d \in DOMAIN _dir_tasks}
             => tasks[id].state = "done"
    /\ last.op = "callback" => last.pre.served

(***************************************************************************)
(* WorkerManager.delete_conversation (v1) with the WebSocket registry.     *)
(* The call suspends in runner.stop() and in each ws.close() of            *)
(* _stop_conversation, which iterates the registered set itself.           *)
(***************************************************************************)
WebSockets == {"ws1", "ws2"}

\* WorkerManager.register_websocket
register_websocket(c, ws) ==
    /\ websocket_connections' =
          Put(websocket_connections, c, Get(websocket_connections, c, {}) \cup {ws})
    /\ UNCHANGED <<repoVars, msgVars, svcVars, apiVars, timeVars, wm_conversations,
                   procs, starting, stopping, nextPid, deleting, last>>

\* WorkerManager.unregister_websocket
unregister_websocket(c, ws) ==
    /\ c \in DOMAIN websocket_connections
    /\ websocket_connections' =
          [websocket_connections EXCEPT ![c] = @ \ {ws}]
    /\ UNCHANGED <<repoVars, msgVars, svcVars, apiVars, timeVars, wm_conversations,
                   procs, starting, stopping, nextPid, deleting, last>>

\* DatabaseManager.delete_conversation
DatabaseManager_delete_conversation(tbl, c) == {r \in tbl : r.id # c}

\* delete_conversation, lines 222-225: the row is deleted, True returned.
DeleteRecord(c, rest, conns, how) ==
    /\ conversations' = DatabaseManager_delete_conversation(conversations, c)
    /\ websocket_connections' = conns
    /\ deleting' = rest
    /\ last' = [op |-> "delete", status |-> 200, worker |-> "nobody", conv |-> c,
                pre |-> how]

\* _stop_conversation, lines 370-377, up to the first "await ws.close()":
\* the for statement iterates the registered set, in any order.
CloseWebSockets(c, rest, how) ==
    IF c \notin DOMAIN websocket_connections
       THEN DeleteRecord(c, rest, websocket_connections, how)
    ELSE IF websocket_connections[c] = {}
       THEN DeleteRecord(c, rest, Del(websocket_connections, c), how)
    ELSE \E ws \in websocket_connections[c] :
            /\ deleting' = rest \cup
                  {[conv |-> c, pc |-> "closing", pid |-> NoPid, how |-> how,
                    used |-> Cardinality(websocket_connections[c]),
                    visited |-> {ws}]}
            /\ last' = [op |-> "delete_begin", status |-> 0, worker |-> "nobody",
                        conv |-> c, pre |-> how]
            /\ UNCHANGED <<conversations, websocket_connections>>

\* delete_conversation up to its first await.
wm_delete_conversation_begin(w, c) ==
    /\ UNCHANGED <<nextConvId, msgVars, svcVars, apiVars, timeVars, starting,
                   nextPid, procs>>
    /\ IF ~\E r \in conversations : r.id = c /\ r.worker_id = w
          THEN /\ last' = [op |-> "delete", status |-> 404, worker |-> w,
                           conv |-> c, pre |-> {}]
               /\ UNCHANGED <<conversations, wm_conversations, stopping, wsVars>>
       ELSE IF ~IsRegistered(wm_conversations, c)
          THEN /\ DeleteRecord(c, deleting, websocket_connections, {})
               /\ UNCHANGED <<wm_conversations, stopping>>
       ELSE /\ wm_conversations' = {e \in wm_conversations : e.conv # c}
            /\ IF RunnerOf(wm_conversations, c) = NoPid
                  THEN /\ CloseWebSockets(c, deleting, {"registered"})
                       /\ UNCHANGED stopping
                  ELSE /\ stopping' = stopping \cup {RunnerOf(wm_conversations, c)}
                       /\ deleting' = deleting \cup
                             {[conv |-> c, pc |-> "stopping",
                               pid |-> RunnerOf(wm_conversations, c),
                               how |-> {"running"}, used |-> 0, visited |-> {}]}
                       /\ last' = [op |-> "delete_begin", status |-> 0,
                                   worker |-> w, conv |-> c, pre |-> {"running"}]
                       /\ UNCHANGED <<conversations, websocket_connections>>

\* runner.stop() returns: ProcessHandler.stop has ended, having logged the
\* error it caught (err) or none.
delete_runner_stopped(d, err) ==
    /\ d \in deleting
    /\ d.pc = "stopping"
    /\ stopping' = stopping \ {d.pid}
    /\ procs' = {p \in procs : p.pid # d.pid}
    /\ CloseWebSockets(d.conv, deleting \ {d},
                       d.how \cup (IF err THEN {"stop_error"} ELSE {}))
    /\ UNCHANGED <<nextConvId, msgVars, svcVars, apiVars, timeVars, starting,
                   nextPid, wm_conversations>>

\* "await ws.close()" returns or raises (caught); the for statement asks
\* the set iterator for the next element, and the iterator raises
\* RuntimeError when the set has changed size since the loop began.
delete_ws_closed(d) ==
    /\ d \in deleting
    /\ d.pc = "closing"
    /\ LET cur == Get(websocket_connections, d.conv, {})
           rest == deleting \ {d}
       IN IF Cardinality(cur) # d.used
             THEN /\ deleting' = rest
                  /\ last' = [op |-> "delete", status |-> 500, worker |-> "nobody",
                              conv |-> d.conv, pre |-> d.how]
                  /\ UNCHANGED <<conversations, websocket_connections>>
          ELSE IF cur \ d.visited # {}
             THEN \E ws \in cur \ d.visited :
                     /\ deleting' = rest \cup {[d EXCEPT !.visited = @ \cup {ws}]}
                     /\ UNCHANGED <<conversations, websocket_connections, last>>
          ELSE DeleteRecord(d.conv, rest, Del(websocket_connections, d.conv), d.how)
    /\ UNCHANGED <<nextConvId, msgVars, svcVars, apiVars, timeVars, starting,
                   nextPid, wm_conversations, procs, stopping>>

NextWMDelete ==
    \/ new_conversation_begin("w1")
    \/ \E s \in starting, ok \in BOOLEAN : runner_started(s, ok)
    \/ \E c \in Returned, ws \in WebSockets : register_websocket(c, ws)
    \/ \E c \in Returned, ws \in WebSockets : unregister_websocket(c, ws)
    \/ \E w \in Workers, c \in Returned : wm_delete_conversation_begin(w, c)
    \/ \E d \in deleting, err \in BOOLEAN : delete_runner_stopped(d, err)
    \/ \E d \in deleting : delete_ws_closed(d)

SpecWMDelete == InitWM /\ [][NextWMDelete]_vars

\* C16: deleting a conversation whose process is running always removes
\* its row: when the delete call ends, it has returned True and the row
\* is gone, also when stopping the process reported an error.
C16_DeleteRemovesRecord ==
    (last.op = "delete" /\ "running" \in last.pre)
       => /\ last.status = 200
          /\ ~\E r \in conversations : r.id = last.conv

(***************************************************************************)
(* Sends with every way the vendor and the immediate sync can fail.        *)
(***************************************************************************)
NextSend ==
    \/ nextConvId <= MaxSendConvs /\ create_conversation("w1", "dir", clock)
    \/ \E c \in ConvIds : delete_conversation(c)
    \/ \E c \in ConvIds : nSends < MaxSendSends /\ create_input_begin(c)
    \/ \E q \in requests, exit \in VendorExits, out \in {<<>>, <<RecFull>>},
          err \in SyncErrors : create_input_finish(q, exit, out, err, clock)
    \/ tick

SpecSend == InitApi /\ [][NextSend]_vars

\* The step is the end of a send whose vendor invocation has exited.
SendEnds == requests' # requests /\ last'.op = "send"

\* C17: when the sync made right after a successful vendor invocation
\* raises, the send still succeeds: the answer is 201, the input is
\* appended to the conversation's inputs and the last_activity of the
\* conversation's row is set to the time of the send.
C17_SyncErrorNotFatal ==
    [][ (SendEnds /\ last'.pre.exit.code = 0 /\ last'.pre.sync # "none")
           => /\ last'.status = 201
              /\ store'.input[last'.conv] =
                    ConversationManager_add_input(store, last'.conv, clock).input[last'.conv]
              /\ \A r \in conversations' :
                    r.id = last'.conv => r.last_activity = clock
       ]_vars

\* A send that succeeded although save_messages raised during its sync,
\* made after the clock had advanced, on a conversation that still exists.
C17_Witness ==
    /\ last.op = "send"
    /\ last.status = 201
    /\ last.pre.sync = "save_raises"
    /\ clock = 2
    /\ \E r \in conversations : r.id = last.conv /\ r.last_activity = 2

\* C18: a vendor invocation that exits non-zero during a send is answered
\* 500 with the vendor's stderr in the detail, the send ends there (no
\* second invocation), and the conversation is as before: same row (raw id,
\* last_activity) and no input recorded.
C18_VendorFailureSurfaced ==
    [][ (SendEnds /\ last'.pre.exit.code # 0)
           => /\ last'.status = 500
              /\ last'.pre.exit.stderr \in Elems(last'.pre.detail)
              /\ last'.pre.req \notin requests'
              /\ sessionFiles' = sessionFiles
              /\ conversations' = conversations
              /\ store'.input = store.input
       ]_vars


(***************************************************************************)
(* Sends and syncs for workers of both registered types.                   *)
(***************************************************************************)
NextSync ==
    \/ \E w \in Workers : nextConvId <= MaxSyncConvs /\ create_conversation(w, "dir", clock)
    \/ \E c \in ConvIds : nSends < MaxSyncSends /\ create_input_begin(c)
    \/ \E q \in requests, exit \in {Exit0, ExitBoom}, out \in VendorOutputs :
          create_input_finish(q, exit, out, "none", clock)
    \/ \E c \in ConvIds : sync_conversation_messages(c, clock)
    \/ tick

SpecSync == InitApi /\ [][NextSync]_vars

\* C19: a sync of a conversation whose worker type has no vendor
\* integration (opencode) is answered 501, never 500, and leaves the
\* conversation's stored messages as they were.
C19_SyncNotImplemented ==
    [][ (last'.op = "sync" /\ last'.worker \in Workers
            /\ handlers(worker_type(last'.worker)) = "OpenCodeWorker")
           => /\ last'.status = 501
              /\ store'.messages = store.messages ]_vars


(***************************************************************************)
(* The ProcessHandler with messages sent to the child's stdin: start,      *)
(* stop, send_message and the child's own exit, without the child's        *)
(* output.                                                                 *)
(***************************************************************************)
NextPHSend ==
    \/ nSpawns < MaxSpawns /\ start_begin
    \/ \E ok \in BOOLEAN : start_finish(ok)
    \/ child_exit
    \/ child_close_stdin
    \/ transport_closed
    \/ reader_eof
    \/ reader_cancelled
    \/ stop_begin
    \/ stop_task_done
    \/ stop_wait_returns
    \/ stop_timeout
    \/ stop_kill_returns
    \/ \E m \in Texts : Len(child.received) < MaxStdin /\ ProcessHandler_send_message(m)

SpecPHSend == InitPH /\ [][NextPHSend]_vars

C22_AliveOnlyWhileRunning ==
    /\ is_alive => /\ nSpawns > 0
                   /\ process = nSpawns
                   /\ child.state = "running"
    /\ nSpawns = 0 => ~is_alive
    /\ last.op = "stop" => ~is_alive
    /\ child.state \in {"exited", "closed"} => ~is_alive

\* The child exited on its own: the handler is still marked running and
\* holds the process, no stop() is under way, and is_alive() is false.
C22_Witness ==
    /\ is_running
    /\ process = 1
    /\ child.state = "exited"
    /\ stopPc = "idle"
    /\ last.op = "start"
    /\ ~is_alive


(***************************************************************************)
(* ClaudeConversationManager (pyworker/app/services/v1/                    *)
(* conversation_manager.py): one manager per worker, all on one database   *)
(* and one project directory.  Its coroutines await only each other, so    *)
(* each call is one step.                                                  *)
(***************************************************************************)
\* get_conversation: the cache first, then the row with that id, whatever
\* its worker; a row found is cached.  The empty set stands for None.
cm_get_conversation(w, c) ==
    IF c \in conversations_cache[w] THEN {c}
    ELSE {r.id : r \in {x \in conversations : x.id = c}}

\* DatabaseManager.switch_conversation
DatabaseManager_switch_conversation(tbl, w, c, now) ==
    SetCurrent(UnsetCurrent(tbl, w), w, c, now)

\* switch_conversation on the state given; the ValueError leaves it as
\* get_conversation left it.
SwitchConversation(w, c, tbl, cache, dirs) ==
    IF c \notin cache[w] /\ ~\E r \in tbl : r.id = c
       THEN /\ UNCHANGED current_conversation_id
            /\ conversations' = tbl
            /\ conversations_cache' = cache
            /\ conv_dirs' = dirs
       ELSE /\ current_conversation_id' = [current_conversation_id EXCEPT ![w] = c]
            /\ conversations_cache' = [cache EXCEPT ![w] = @ \cup {c}]
            /\ conv_dirs' = dirs \cup {c}
            /\ conversations' = DatabaseManager_switch_conversation(tbl, w, c, clock)

\* What the claims need of the state before a call.
CMState == [current |-> current_conversation_id, rows |-> conversations,
            dirs |-> conv_dirs]

\* new_conversation: directory, metadata, cache, row (is_current False),
\* then switch_conversation to it.
cm_new_conversation(w) ==
    /\ nextConvId <= MaxCMConvs
    /\ SwitchConversation(w, nextConvId,
          conversations \cup {ConversationDO(nextConvId, w, FALSE, NULL, clock)},
          [conversations_cache EXCEPT ![w] = @ \cup {nextConvId}],
          conv_dirs \cup {nextConvId})
    /\ nextConvId' = nextConvId + 1
    /\ last' = [op |-> "cm_new", status |-> "id", worker |-> w,
                conv |-> nextConvId, pre |-> CMState]
    /\ UNCHANGED notCM

\* switch_conversation
cm_switch_conversation(w, c) ==
    /\ SwitchConversation(w, c, conversations, conversations_cache, conv_dirs)
    /\ last' = [op |-> "cm_switch",
                status |-> IF cm_get_conversation(w, c) = {} THEN "ValueError"
                           ELSE "True",
                worker |-> w, conv |-> c, pre |-> CMState]
    /\ UNCHANGED <<nextConvId, notCM>>

\* delete_conversation: "if conversation_id == self.current_conversation_id"
is_current_conversation(w, c) == c = current_conversation_id[w]

\* delete_conversation
cm_delete_conversation(w, c) ==
    /\ UNCHANGED <<nextConvId, current_conversation_id, notCM>>
    /\ IF cm_get_conversation(w, c) = {}
          THEN /\ last' = [op |-> "cm_delete", status |-> "False", worker |-> w,
                           conv |-> c, pre |-> CMState]
               /\ UNCHANGED <<conversations, conversations_cache, conv_dirs>>
       ELSE IF is_current_conversation(w, c)
          THEN /\ last' = [op |-> "cm_delete", status |-> "ValueError",
                           worker |-> w, conv |-> c, pre |-> CMState]
               /\ conversations_cache' = [conversations_cache EXCEPT ![w] = @ \cup {c}]
               /\ UNCHANGED <<conversations, conv_dirs>>
       ELSE /\ conv_dirs' = conv_dirs \ {c}
            /\ conversations_cache' = [conversations_cache EXCEPT ![w] = @ \ {c}]
            /\ conversations' = DatabaseManager_delete_conversation(conversations, c)
            /\ last' = [op |-> "cm_delete", status |-> "True", worker |-> w,
                        conv |-> c, pre |-> CMState]

\* The worker's manager is constructed anew: __init__ reads the current
\* conversation of the worker from the database and starts with an empty
\* cache.
cm_init(w) ==
    /\ current_conversation_id' =
          [current_conversation_id EXCEPT ![w] =
              IF ConversationRepository_get_current(conversations, w) = {} THEN NULL
              ELSE CHOOSE c \in ConversationRepository_get_current(conversations, w) : TRUE]
    /\ conversations_cache' = [conversations_cache EXCEPT ![w] = {}]
    /\ last' = [op |-> "cm_init", status |-> "", worker |-> w, conv |-> 0,
                pre |-> CMState]
    /\ UNCHANGED <<repoVars, conv_dirs, notCM>>

NextCM ==
    \/ \E w \in Workers : cm_new_conversation(w)
    \/ \E w \in Workers, c \in ConvIds : cm_switch_conversation(w, c)
    \/ \E w \in Workers, c \in ConvIds : cm_delete_conversation(w, c)
    \/ \E w \in Workers : cm_init(w)
    \/ tick

SpecCM == InitApi /\ [][NextCM]_vars

\* C23: a delete of a conversation that some manager holds as its current
\* conversation is rejected and changes neither the rows, the directories
\* nor any current pointer, and no manager's current pointer refers to a
\* conversation that was deleted.
C23_CurrentNeverDeleted ==
    /\ \A w \in Workers :
          current_conversation_id[w] # NULL
             => \E r \in conversations : r.id = current_conversation_id[w]
    /\ (last.op = "cm_delete"
           /\ \E w \in Workers : last.pre.current[w] = last.conv)
          => /\ last.status = "ValueError"
             /\ conversations = last.pre.rows
             /\ conv_dirs = last.pre.dirs
             /\ current_conversation_id = last.pre.current


(***************************************************************************)
(* JSONLParser.read_new_lines (pyworker/app/utils/jsonl_parser.py) under   *)
(* FileWatcherHandler._process_new_lines.  Record n is the three bytes     *)
(* <<n, "{">>, <<n, "}">>, <<n, "\n">>; the vendor appends the records in   *)
(* order, any number of bytes at a time.                                   *)
(***************************************************************************)
RecordBytes == <<"{", "}", "\n">>

\* The first n bytes of the stream of records 1, 2, ...
Stream(n) == [k \in 1..n |-> <<((k - 1) \div Len(RecordBytes)) + 1,
                               RecordBytes[((k - 1) % Len(RecordBytes)) + 1]>>]

\* The vendor appends the next k bytes of its output to the file.
vendor_append(k) ==
    /\ Len(jsonl) + k <= MaxJsonlRecords * Len(RecordBytes)
    /\ jsonl' = Stream(Len(jsonl) + k)
    /\ last' = [op |-> "append", status |-> k, pre |-> Len(jsonl)]
    /\ UNCHANGED <<notParser, last_position, parsed>>

\* "async for line in f": the bytes up to and including the next newline,
\* or up to the end of the file when no newline is left.
RECURSIVE LinesOf(_)
LinesOf(bytes) ==
    IF bytes = <<>> THEN <<>>
    ELSE LET ends == {k \in 1..Len(bytes) : bytes[k][2] = "\n"}
             n == IF ends = {} THEN Len(bytes)
                  ELSE CHOOSE k \in ends : \A j \in ends : k <= j
         IN <<SubSeq(bytes, 1, n)>> \o LinesOf(SubSeq(bytes, n + 1, Len(bytes)))

\* line.strip()
strip(line) == SelectSeq(line, LAMBDA b : b[2] # "\n")

\* json.loads(line) succeeds: the line is the text of one record.
Parses(line) ==
    /\ Len(line) = 2
    /\ line[1][2] = "{"
    /\ line[2][2] = "}"
    /\ line[1][1] = line[2][1]

\* The records read_new_lines returns for the bytes after the position.
NewData(bytes) ==
    LET lines == [i \in 1..Len(LinesOf(bytes)) |-> strip(LinesOf(bytes)[i])]
        good == SelectSeq(lines, Parses)
    IN [i \in 1..Len(good) |-> good[i][1][1]]

\* "self.last_position = await f.tell()" after the loop: the end of file.
tell(pos, bytes) == Len(bytes)

\* _process_new_lines: read_new_lines, then the callback on each record.
\* pre is the position before the call.
_process_new_lines ==
    /\ parsed' = parsed \o NewData(SubSeq(jsonl, last_position + 1, Len(jsonl)))
    /\ last_position' = tell(last_position, jsonl)
    /\ last' = [op |-> "read", status |-> Len(parsed') - Len(parsed),
                pre |-> last_position]
    /\ UNCHANGED <<notParser, jsonl>>

InitParser ==
    /\ RepoInit
    /\ MsgInit
    /\ ApiInit
    /\ last = [op |-> "init", status |-> 0, pre |-> 0]

NextParser ==
    \/ \E k \in 1..Len(RecordBytes) : vendor_append(k)
    \/ _process_new_lines

SpecParser == InitParser /\ [][NextParser]_vars

\* C24: the recorded offset never stands inside a record (a partial
\* trailing line that is not yet a whole record is held back), and the
\* records delivered so far are exactly the records that lie before the
\* offset, each once, in order.
C24_WholeLinesOnly ==
    /\ last_position % Len(RecordBytes) # 1
    /\ parsed = [i \in 1..((last_position + 1) \div Len(RecordBytes)) |-> i]


(***************************************************************************)
(* The normalizer on pairs of records of one transcript                    *)
(* (ClaudeCodeWorker._convert_raw_message).                                *)
(***************************************************************************)
\* Parsed records: every combination of type, uuid, sessionId and
\* timestamp present or absent.
RawRecords ==
    [json : {TRUE}, type : {"user", "assistant", "summary"}, uuid : {"", "u1"},
     sessionId : {"", "s1"}, timestamp : {"", "t1", "t2"}, text : {"a"}]

\* fetch_messages converts two records of a transcript; pre holds the
\* records and the messages made of them.
convert_pair(r1, r2) ==
    /\ last' = [op |-> "convert", status |-> 0, worker |-> "nobody", conv |-> 0,
                pre |-> [raw |-> <<r1, r2>>,
                         out |-> <<_convert_raw_message(r1, clock),
                                   _convert_raw_message(r2, clock)>>]]
    /\ UNCHANGED <<repoVars, msgVars, svcVars, apiVars, timeVars, wmVars>>

NextNorm ==
    \/ \E r1, r2 \in RawRecords : last.op = "init" /\ convert_pair(r1, r2)
    \/ tick

SpecNorm == InitApi /\ [][NextNorm]_vars

\* C25: two records of one session that both lack a uuid and differ in
\* type or timestamp are given different identifiers.
C25_SynthesizedIdsDiffer ==
    last.op = "convert" =>
       LET r1 == last.pre.raw[1]
           r2 == last.pre.raw[2]
       IN ( /\ r1.uuid = "" /\ r2.uuid = ""
            /\ r1.sessionId = r2.sessionId
            /\ (r1.type # r2.type \/ r1.timestamp # r2.timestamp) )
             => last.pre.out[1].uuid # last.pre.out[2].uuid


(***************************************************************************)
(* utils/file_reader.py: reverse_readline and read_last_n_lines on a file  *)
(* given as the sequence of its bytes; "\n" is the newline byte.  The      *)
(* bytes of the model are ASCII, so decode('utf-8') returns the line.      *)
(***************************************************************************)
NL == "\n"

\* bytes.split(b'\n'): one piece more than there are newlines.
RECURSIVE split(_)
split(bytes) ==
    LET ends == {k \in 1..Len(bytes) : bytes[k] = NL}
    IN IF ends = {} THEN <<bytes>>
       ELSE LET n == CHOOSE k \in ends : \A j \in ends : k <= j
            IN <<SubSeq(bytes, 1, n - 1)>> \o split(SubSeq(bytes, n + 1, Len(bytes)))

\* reversed(seq)
reversed(seq) == [k \in 1..Len(seq) |-> seq[Len(seq) + 1 - k]]

\* The while loop of reverse_readline from the given position and buffer:
\* the lines it yields from there on, in the order yielded.
RECURSIVE reverse_readline_from(_, _, _, _)
reverse_readline_from(content, buf_size, position, buffer) ==
    IF position = 0
       THEN IF buffer # <<>> THEN <<buffer>> ELSE <<>>
       ELSE LET read_size == IF buf_size < position THEN buf_size ELSE position
                pos == position - read_size
                chunk == SubSeq(content, pos + 1, pos + read_size)
                lines == split(chunk \o buffer)
            IN SelectSeq(reversed(Tail(lines)), LAMBDA l : l # <<>>)
                  \o reverse_readline_from(content, buf_size, pos, lines[1])

\* reverse_readline
reverse_readline(content, buf_size) ==
    IF Len(content) = 0 THEN <<>>
    ELSE reverse_readline_from(content, buf_size, Len(content), <<>>)

\* Mutant: the loop stops one line late.
RECURSIVE take_one_more(_, _, _)
take_one_more(gen, n, lines) ==
    IF gen = <<>> THEN lines
    ELSE IF Len(lines) + 1 > n THEN Append(lines, Head(gen))
    ELSE take_one_more(Tail(gen), n, Append(lines, Head(gen)))

\* The for loop of read_last_n_lines: append, then "if len(lines) >= n: break".
RECURSIVE take(_, _, _)
take(gen, n, lines) ==
    IF gen = <<>> THEN lines
    ELSE IF Len(lines) + 1 >= n THEN Append(lines, Head(gen))
    ELSE take(Tail(gen), n, Append(lines, Head(gen)))

\* read_last_n_lines
read_last_n_lines(content, n, buf_size, reverse) ==
    IF reverse THEN take(reverse_readline(content, buf_size), n, <<>>)
    ELSE reversed(take(reverse_readline(content, buf_size), n, <<>>))

\* File contents up to MaxFileLen bytes.
FileBytes == {"a", "b", NL}
FileContents == UNION {[1..k -> FileBytes] : k \in 0..MaxFileLen}

\* One call of read_last_n_lines; pre holds the arguments, status the list
\* returned.
read_file(content, n, buf_size, reverse) ==
    /\ last' = [op |-> "read_last_n_lines",
                status |-> read_last_n_lines(content, n, buf_size, reverse),
                worker |-> "nobody", conv |-> 0,
                pre |-> [content |-> content, n |-> n, buf_size |-> buf_size,
                         reverse |-> reverse]]
    /\ UNCHANGED <<repoVars, msgVars, svcVars, apiVars, timeVars, wmVars>>

NextReader ==
    \/ \E content \in FileContents, n \in 0..MaxN, buf_size \in 1..MaxBuf,
          reverse \in BOOLEAN :
          last.op = "init" /\ read_file(content, n, buf_size, reverse)
    \/ tick

SpecReader == InitApi /\ [][NextReader]_vars

\* The non-empty lines of a file, oldest first.
NonEmptyLines(content) == SelectSeq(split(content), LAMBDA l : l # <<>>)

\* The last k elements of a sequence.
LastK(seq, k) == SubSeq(seq, Len(seq) - k + 1, Len(seq))

\* C29: read_last_n_lines returns the last min(n, number of non-empty
\* lines) non-empty lines of the file, newest first when reverse is true
\* and oldest first when it is false, for every buffer size and every
\* n >= 0.
C29_LastNLines ==
    last.op = "read_last_n_lines" =>
       LET all == NonEmptyLines(last.pre.content)
           k == IF last.pre.n < Len(all) THEN last.pre.n ELSE Len(all)
       IN last.status = IF last.pre.reverse THEN reversed(LastK(all, k))
                        ELSE LastK(all, k)


(***************************************************************************)
(* services/conversation_manager.py: the inputs file and the messages file *)
(* of a conversation as bytes on disk.  A record is written as the text of *)
(* json.dumps (three bytes of the model: the braces and the body, in which *)
(* a newline is escaped) followed by the newline byte.                     *)
(***************************************************************************)
MgrConvs == {1, 2}
InputTexts == {"first", NL}
InputRecords == [role : {"user"}, content : InputTexts, timestamp : Times]

\* json.dumps(value, ensure_ascii=False)
json_dumps(value) == <<"{", ToString(value), "}">>

\* json.loads(line) for the values of the given kind; anything that is not
\* the text of one value raises JSONDecodeError.
loads(line, values) ==
    IF /\ Len(line) = 3
       /\ line[1] = "{"
       /\ line[3] = "}"
       /\ \E v \in values : ToString(v) = line[2]
       THEN CHOOSE v \in values : ToString(v) = line[2]
       ELSE [raised |-> "JSONDecodeError"]

\* The bytes of a JSONL file: f.write(json.dumps(record) + "\n") per line.
RECURSIVE file_bytes(_)
file_bytes(lines) ==
    IF lines = <<>> THEN <<>>
    ELSE json_dumps(Head(lines)) \o <<NL>> \o file_bytes(Tail(lines))

\* line.strip()
stripped(line) == SelectSeq(line, LAMBDA b : b \notin {" ", NL})

\* The list comprehension of get_inputs and get_messages.
loads_all(lines, values) ==
    LET kept == SelectSeq(lines, LAMBDA l : stripped(l) # <<>>)
    IN [k \in 1..Len(kept) |-> loads(kept[k], values)]

\* add_input with the given role and content.
add_input_record(st, c, role, content, now) ==
    [st EXCEPT !.input[c] =
        [exists |-> TRUE,
         lines |-> Append(@.lines, [role |-> role, content |-> content,
                                    timestamp |-> now])]]

\* Mutant: the lines are read oldest first.
get_inputs_oldest_first(st, c, limit, buf_size) ==
    IF ~st.input[c].exists THEN <<>>
    ELSE loads_all(read_last_n_lines(file_bytes(st.input[c].lines), limit,
                                     buf_size, FALSE), InputRecords)

\* get_inputs: read_last_n_lines(file_path, limit), every line loaded.
get_inputs(st, c, limit, buf_size) ==
    IF ~st.input[c].exists THEN <<>>
    ELSE loads_all(read_last_n_lines(file_bytes(st.input[c].lines), limit,
                                     buf_size, TRUE), InputRecords)

\* limit: int = Query(100, ge=1, le=1000) of the two GET handlers.
Limits == 1..MaxN

\* The buffer of 8192 bytes against files that are shorter or longer: the
\* sizes that put the chunk boundaries on every byte of a record.
BufSizes == 1..MaxBuf

mgr_add_input(c, content) ==
    /\ Len(store.input[c].lines) < MaxInputs
    /\ store' = add_input_record(store, c, "user", content, clock)
    /\ last' = [op |-> "add_input", status |-> 0, worker |-> "w1", conv |-> c,
                pre |-> {}]
    /\ UNCHANGED <<repoVars, msgVars, svcVars, vendorVars, watchVars, reqVars,
                   wsVars, handlerVars, osVars, timeVars, wmVars>>

mgr_get_inputs(c, limit, buf_size) ==
    /\ last' = [op |-> "get_inputs",
                status |-> get_inputs(store, c, limit, buf_size),
                worker |-> "w1", conv |-> c,
                pre |-> [limit |-> limit, buf_size |-> buf_size]]
    /\ UNCHANGED <<repoVars, msgVars, svcVars, apiVars, timeVars, wmVars>>

NextInputs ==
    \/ \E c \in MgrConvs, content \in InputTexts : mgr_add_input(c, content)
    \/ \E c \in MgrConvs, limit \in Limits, buf_size \in BufSizes :
          mgr_get_inputs(c, limit, buf_size)

SpecInputs == InitApi /\ [][NextInputs]_vars

DictMsgs == {[class |-> "dict", uuid |-> u] : u \in {"u1", "u2"}}
ObjMsg == [class |-> "MessageResponse", uuid |-> "u3"]
SaveLists == UNION {[1..k -> DictMsgs \cup {ObjMsg}] : k \in 0..MaxSaved}

\* What save_messages gives back: len(raw_messages), or the TypeError of
\* json.dumps.
save_messages_returns(msgs) ==
    IF \A k \in 1..Len(msgs) : Serializable(msgs[k])
       THEN [raised |-> "", value |-> Len(msgs)]
       ELSE [raised |-> "TypeError", value |-> 0]

\* get_messages: read_last_n_lines(file_path, limit), every line loaded.
get_messages(st, c, limit, buf_size) ==
    IF ~st.messages[c].exists THEN <<>>
    ELSE loads_all(read_last_n_lines(file_bytes(st.messages[c].lines), limit,
                                     buf_size, TRUE), DictMsgs)

mgr_save_messages(c, msgs) ==
    /\ store' = ConversationManager_save_messages(store, c, msgs)
    /\ last' = [op |-> "save_messages", status |-> save_messages_returns(msgs),
                worker |-> "w1", conv |-> c, pre |-> msgs]
    /\ UNCHANGED <<repoVars, msgVars, svcVars, vendorVars, watchVars, reqVars,
                   timeVars, wmVars>>

mgr_get_messages(c, limit, buf_size) ==
    /\ last' = [op |-> "get_messages",
                status |-> get_messages(store, c, limit, buf_size),
                worker |-> "w1", conv |-> c,
                pre |-> [limit |-> limit, buf_size |-> buf_size]]
    /\ UNCHANGED <<repoVars, msgVars, svcVars, apiVars, timeVars, wmVars>>

NextMessages ==
    \/ \E c \in MgrConvs : mgr_add_input(c, "first")
    \/ \E c \in MgrConvs, msgs \in SaveLists : mgr_save_messages(c, msgs)
    \/ \E c \in MgrConvs, limit \in Limits, buf_size \in BufSizes :
          mgr_get_messages(c, limit, buf_size)

SpecMessages == InitApi /\ [][NextMessages]_vars

\* C27: save_messages replaces the conversation's stored message list by
\* the messages of this save, returns the number written, and leaves the
\* stored messages and inputs of every other conversation untouched.
C27_SaveReplaces ==
    [][(last'.op = "save_messages" /\ last' # last) =>
          /\ store'.messages[last'.conv].lines = last'.pre
          /\ last'.status = [raised |-> "", value |-> Len(last'.pre)]
          /\ \A d \in ConvIds \ {last'.conv} :
                store'.messages[d] = store.messages[d]
          /\ store'.input = store.input]_vars

\* C28: get_messages returns the stored messages of the conversation
\* oldest first, the last limit of them when more are stored.
C28_MessagesOldestFirst ==
    last.op = "get_messages" =>
       LET all == store.messages[last.conv].lines
           k == IF last.pre.limit < Len(all) THEN last.pre.limit ELSE Len(all)
       IN last.status = LastK(all, k)


(***************************************************************************)
(* ClaudeCodeWorker.start_watching and stop_watching against the            *)
(* FileManager.  cls._on_session_changed is a classmethod: every access to *)
(* the attribute builds a new bound-method object, and unwatch_directory   *)
(* compares callbacks with "is not".                                       *)
(***************************************************************************)
\* The bound-method objects, by identity.
BoundMethods == {ToString(k) : k \in 1..(MaxRegistrations + 1)}

\* The callbacks registered on CLAUDE_PROJECTS_DIR.
Registered_callbacks == Get(_dir_watches, TheDir, <<>>)

\* cls._on_session_changed: an object that is none of the live ones.
on_session_changed == CHOOSE m \in BoundMethods : m \notin Elems(Registered_callbacks)

\* start_watching(file_manager); exists is CLAUDE_PROJECTS_DIR.exists().
ClaudeCodeWorker_start_watching(exists) ==
    /\ last' = [op |-> "start_watching", status |-> "",
                pre |-> [exists |-> exists, was_watching |-> watching]]
    /\ IF watching
          THEN UNCHANGED <<watching, _file_manager, fmVars>>
          ELSE /\ _file_manager' = "fm"
               /\ watching' = TRUE
               /\ IF exists
                     THEN /\ Len(Registered_callbacks) < MaxRegistrations
                          /\ _dir_watches' = Put(_dir_watches, TheDir,
                                 Append(Registered_callbacks, on_session_changed))
                          /\ IF TheDir \notin DOMAIN _dir_tasks /\ _running
                                THEN /\ Len(tasks) < MaxTasks
                                     /\ tasks' = Append(tasks, NewTask("dir", TheDir))
                                     /\ _dir_tasks' = Put(_dir_tasks, TheDir, Len(tasks) + 1)
                                ELSE UNCHANGED <<tasks, _dir_tasks>>
                          /\ UNCHANGED <<_running, _watches>>
                     ELSE UNCHANGED fmVars
    /\ UNCHANGED <<repoVars, msgVars, phVars, cmVars, parserVars, otherVars, fileVars,
                   vendorVars, reqVars, timeVars, wmVars, active_sessions,
                   conv_manager_ref>>

\* unwatch_directory(CLAUDE_PROJECTS_DIR, cls._on_session_changed) on
\* self._dir_watches: the callbacks that "are not" the new object stay.
unwatch_on_session_changed(dw) ==
    IF TheDir \notin DOMAIN dw THEN dw
    ELSE IF Without(dw[TheDir], on_session_changed) = <<>> THEN Del(dw, TheDir)
    ELSE Put(dw, TheDir, Without(dw[TheDir], on_session_changed))

\* stop_watching
ClaudeCodeWorker_stop_watching ==
    /\ last' = [op |-> "stop_watching", status |-> "",
                pre |-> [was_watching |-> watching]]
    /\ IF watching /\ _file_manager # "None"
          THEN LET dw == unwatch_on_session_changed(_dir_watches)
                   has_file_watches == \E p \in DOMAIN _watches : parent(p) = TheDir
               IN /\ _dir_watches' = dw
                  /\ IF /\ TheDir \in DOMAIN _dir_watches
                        /\ TheDir \notin DOMAIN dw
                        /\ ~has_file_watches
                        /\ TheDir \in DOMAIN _dir_tasks
                        THEN /\ tasks' = cancel(tasks, _dir_tasks[TheDir])
                             /\ _dir_tasks' = Del(_dir_tasks, TheDir)
                        ELSE UNCHANGED <<_dir_tasks, tasks>>
                  /\ UNCHANGED <<_running, _watches>>
          ELSE UNCHANGED fmVars
    /\ active_sessions' = {}
    /\ _file_manager' = "None"
    /\ conv_manager_ref' = FALSE
    /\ watching' = FALSE
    /\ UNCHANGED <<repoVars, msgVars, phVars, cmVars, parserVars, otherVars, fileVars,
                   vendorVars, reqVars, timeVars, wmVars>>

\* worker_class._conv_manager_ref = conv_manager and activate_session, as
\* the send handler does for a conversation with a session.
register_session(raw, c) ==
    /\ Cardinality(active_sessions) < MaxSessions
    /\ active_sessions' = activate_session(active_sessions, raw, c, "w1")
    /\ conv_manager_ref' = TRUE
    /\ last' = [op |-> "activate_session", status |-> "", pre |-> raw]
    /\ UNCHANGED <<repoVars, msgVars, svcVars, fileVars, vendorVars, reqVars,
                   timeVars, wmVars, watching, _file_manager>>

NextCls ==
    \/ FileManager_start
    \/ \E exists \in BOOLEAN : ClaudeCodeWorker_start_watching(exists)
    \/ ClaudeCodeWorker_stop_watching
    \/ \E raw \in RawIds, c \in MgrConvs : register_session(raw, c)

SpecCls == InitApi /\ [][NextCls]_vars

\* C30: start_watching registers the session-change callback on the
\* projects directory at most once however often it is called;
\* stop_watching removes the registration and clears the class-level state
\* (active sessions, file manager, conversation-manager reference, watching
\* flag); a start_watching after it registers the callback again.
C30_WatchOnceAndStopClears ==
    /\ Len(Registered_callbacks) <= 1
    /\ last.op = "stop_watching" =>
          /\ Registered_callbacks = <<>>
          /\ active_sessions = {}
          /\ _file_manager = "None"
          /\ ~conv_manager_ref
          /\ ~watching
    /\ (last.op = "start_watching" /\ last.pre.exists /\ ~last.pre.was_watching) =>
          Len(Registered_callbacks) = 1


(***************************************************************************)
(* The immediate sync of a first send (SpecSend).                          *)
(***************************************************************************)
\* The step is the successful end of a send in start mode.
FirstSendSucceeds ==
    SendEnds /\ last'.status = 201 /\ last'.pre.req.mode = "start"

\* Every record of the session's transcript that parses has its message in
\* the messages file of the conversation (after the step).
TranscriptStored ==
    \A k \in 1..Len(sessionFiles'[last'.pre.raw].lines) :
       sessionFiles'[last'.pre.raw].lines[k].json =>
          \E j \in 1..Len(store'.messages[last'.conv].lines) :
             store'.messages[last'.conv].lines[j].uuid =
                MessageUuid(sessionFiles'[last'.pre.raw].lines[k])

C32_BatchCountsAdded ==
    last.op = "add_batch" => last.status = Len(messages) - Len(last.pre)


(***************************************************************************)
(* WorkerManager.delete_worker.                                            *)
(***************************************************************************)
\* self._stop_conversation(conv_id) in the synchronous delete_worker:
\* calling an "async def" builds a coroutine object; without await its
\* body never runs, so the registry is what it was.
stop_conversation_not_awaited(reg, c) == reg

\* The for loop of delete_worker over conversations_to_stop.
RECURSIVE stop_all(_, _)
stop_all(reg, cs) ==
    IF cs = {} THEN reg
    ELSE LET c == CHOOSE x \in cs : TRUE
         IN stop_all(stop_conversation_not_awaited(reg, c), cs \ {c})

\* runner.worker_id of the runner registered for c.
runner_worker_id(c) == (CHOOSE r \in conversations : r.id = c).worker_id

\* delete_worker, lines 106-124: ValueError for a worker that is not in
\* the table, else the loop and DELETE FROM workers.
delete_worker(w) ==
    IF w \notin db_workers
       THEN /\ last' = [op |-> "delete_worker", status |-> 404, worker |-> w,
                        conv |-> 0, pre |-> {}]
            /\ UNCHANGED <<repoVars, msgVars, svcVars, apiVars, timeVars, wmVars>>
       ELSE LET conversations_to_stop ==
                   {e.conv : e \in {x \in wm_conversations :
                                       runner_worker_id(x.conv) = w}}
            IN /\ wm_conversations' = stop_all(wm_conversations, conversations_to_stop)
               /\ db_workers' = db_workers \ {w}
               /\ last' = [op |-> "delete_worker", status |-> 200, worker |-> w,
                           conv |-> 0, pre |-> conversations_to_stop]
               /\ UNCHANGED <<repoVars, msgVars, phVars, fmVars, cmVars, parserVars,
                              capVars, ocVars, apiVars, timeVars, procs, starting, stopping,
                              nextPid, wsVars>>

NextWorkerDelete ==
    \/ \E w \in Workers : new_conversation_begin(w)
    \/ \E s \in starting, ok \in BOOLEAN : runner_started(s, ok)
    \/ \E c \in ConvIds : stop_conversation_begin(c)
    \/ \E pid \in stopping : stop_conversation_finish(pid)
    \/ \E w \in Workers : delete_worker(w)

SpecWorkerDelete == InitWM /\ [][NextWorkerDelete]_vars

\* C33: after delete_worker returns, none of the worker's conversations
\* has a registered runner or a live subprocess.
C33_DeleteWorkerStopsRunners ==
    (last.op = "delete_worker" /\ last.status = 200) =>
       \A r \in conversations :
          r.worker_id = last.worker =>
             /\ ~IsRegistered(wm_conversations, r.id)
             /\ LiveOf(r.id) = {}


(***************************************************************************)
(* services/worker_manager.py: create_worker and delete_worker of the      *)
(* manager that starts one subprocess per worker, split at                 *)
(* "await process_handler.start()" and "await ...stop()".                  *)
(***************************************************************************)
notCap == <<repoVars, msgVars, phVars, fmVars, cmVars, parserVars, workerVars,
            ocVars, apiVars, timeVars, wmVars>>

\* create_worker, lines 46-85: the cap is tested, the model and the
\* handler are built, and the call suspends in process_handler.start().
create_worker_begin ==
    /\ nextWorkerId <= MaxCreates
    /\ IF Cardinality(workers) >= max_workers
          THEN /\ last' = [op |-> "create_worker", status |-> 400, worker |-> "nobody",
                           conv |-> 0, pre |-> [cap |-> TRUE]]
               /\ UNCHANGED <<capVars>>
          ELSE /\ pending' = pending \cup {[id |-> nextWorkerId, kind |-> "create"]}
               /\ nextWorkerId' = nextWorkerId + 1
               /\ last' = [op |-> "create_worker_begin", status |-> 0,
                           worker |-> "nobody", conv |-> 0, pre |-> [cap |-> FALSE]]
               /\ UNCHANGED <<workers, process_handlers>>
    /\ UNCHANGED notCap

\* create_worker, lines 86-128, once start() returned: the handler and the
\* worker are stored, or RuntimeError becomes ValueError.
create_worker_finish(p, success) ==
    /\ p \in pending /\ p.kind = "create"
    /\ pending' = pending \ {p}
    /\ process_handlers' = IF success THEN process_handlers \cup {p.id}
                           ELSE process_handlers
    /\ workers' = IF success THEN workers \cup {p.id} ELSE workers
    /\ last' = [op |-> "create_worker", status |-> IF success THEN 200 ELSE 400,
                worker |-> "nobody", conv |-> 0, pre |-> [cap |-> FALSE]]
    /\ UNCHANGED <<nextWorkerId, notCap>>

\* delete_worker, lines 140-148: ValueError for an unknown worker, else
\* the call suspends in the handler's stop().
cap_delete_worker_begin(id) ==
    /\ id \in workers
    /\ [id |-> id, kind |-> "delete"] \notin pending
    /\ pending' = pending \cup {[id |-> id, kind |-> "delete"]}
    /\ last' = [op |-> "delete_worker_begin", status |-> 0, worker |-> "nobody",
                conv |-> 0, pre |-> [cap |-> FALSE]]
    /\ UNCHANGED <<workers, process_handlers, nextWorkerId, notCap>>

\* delete_worker, lines 149-168: the handler and the worker are removed.
cap_delete_worker_finish(p) ==
    /\ p \in pending /\ p.kind = "delete"
    /\ pending' = pending \ {p}
    /\ process_handlers' = process_handlers \ {p.id}
    /\ workers' = workers \ {p.id}
    /\ last' = [op |-> "delete_worker", status |-> 200, worker |-> "nobody",
                conv |-> 0, pre |-> [cap |-> FALSE]]
    /\ UNCHANGED <<nextWorkerId, notCap>>

NextCap ==
    \/ create_worker_begin
    \/ \E p \in pending, success \in BOOLEAN : create_worker_finish(p, success)
    \/ \E id \in 1..MaxCreates : cap_delete_worker_begin(id)
    \/ \E p \in pending : cap_delete_worker_finish(p)

SpecCap == InitApi /\ [][NextCap]_vars

\* C34: the number of live workers, and of their subprocesses, never
\* exceeds the configured maximum, also when create requests overlap.
C34_WorkerCap ==
    /\ Cardinality(workers) <= max_workers
    /\ Cardinality(process_handlers) <= max_workers


(***************************************************************************)
(* The raw session id under overlapping sends (SpecSend).                  *)
(***************************************************************************)
\* C35: a conversation's raw session id is assigned at most once: no two
\* sends of one conversation are in flight in start mode, and a raw id once
\* persisted on the row is never replaced by a different value.
C35_RawIdAssignedOnce ==
    [][/\ \A q1, q2 \in requests' :
             (q1.conv = q2.conv /\ q1.mode = "start" /\ q2.mode = "start")
                => q1 = q2
       /\ \A r \in conversations, t \in conversations' :
             (t.id = r.id /\ r.raw_conversation_id # NULL)
                => t.raw_conversation_id = r.raw_conversation_id]_vars


(***************************************************************************)
(* The files of a deleted conversation (SpecDelete, SpecWatch).            *)
(***************************************************************************)
\* The conversation was created and its row is gone: its deletion has
\* completed.
Deleted(c) == c < nextConvId /\ ConversationRepository_get(conversations, c) = {}

\* C36: once a conversation's deletion has completed, no later step, be it
\* a file-watch callback for its raw session id or the end of a send that
\* was in flight, recreates its inputs file or its messages file.
C36_DeletedStaysDeleted ==
    [][\A c \in ConvIds :
          Deleted(c) => FilesOf(store', c) \subseteq FilesOf(store, c)]_vars


(***************************************************************************)
(* Which loop serves a directory (SpecFM).                                 *)
(***************************************************************************)
\* Directory d has a running _dir_watch_loop: the task registered for it
\* dispatches to the directory callbacks and has not been cancelled.
HasDirLoop(d) ==
    /\ d \in DOMAIN _dir_tasks
    /\ tasks[_dir_tasks[d]].kind = "dir"
    /\ tasks[_dir_tasks[d]].state \in {"waiting", "in_callback"}

\* C37: once the file manager is started, every directory with a
\* registered directory callback is served by a running directory watch
\* loop, whether the callback was registered before or after start() and
\* whether or not a file-level watch on the directory came first.
C37_DirCallbacksServed ==
    _running => \A d \in DOMAIN _dir_watches : HasDirLoop(d)


\* C38: removing a file-level watch affects only that registration: the
\* callbacks of other files and the directory-level callbacks stay
\* registered, and the directory's watch task is neither cancelled nor
\* forgotten while directory callbacks for that directory remain.
C38_UnwatchKeepsDirectoryLoop ==
    [][ last'.op = "unwatch" =>
          LET f == last'.pre
              d == parent(f)
          IN /\ _dir_watches' = _dir_watches
             /\ \A p \in DOMAIN _watches \ {f} :
                    p \in DOMAIN _watches' /\ _watches'[p] = _watches[p]
             /\ (d \in DOMAIN _dir_watches /\ d \in DOMAIN _dir_tasks) =>
                    /\ d \in DOMAIN _dir_tasks'
                    /\ _dir_tasks'[d] = _dir_tasks[d]
                    /\ tasks'[_dir_tasks[d]] = tasks[_dir_tasks[d]] ]_vars


(***************************************************************************)
(* Running conversations and their subprocesses (SpecWMExit): SpecWM with  *)
(* subprocesses that exit on their own.                                    *)
(***************************************************************************)
\* A vendor subprocess exits by itself.  Nothing in the WorkerManager
\* observes the exit: the runner stays in self.conversations.
subprocess_exits(pid) ==
    /\ \E p \in procs : p.pid = pid
    /\ pid \notin stopping
    /\ procs' = {p \in procs : p.pid # pid}
    /\ last' = [op |-> "exit", status |-> 0, worker |-> "nobody", conv |-> 0,
                pre |-> {pid}]
    /\ UNCHANGED <<repoVars, msgVars, svcVars, apiVars, timeVars, wsVars,
                   wm_conversations, starting, stopping, nextPid>>

\* The requests that start and stop runners, and the exits.  Sends are
\* left out: what a write to an exited process answers is not at issue.
NextWMExit ==
    \/ \E w \in Workers : new_conversation_begin(w)
    \/ \E w \in Workers, c \in Returned : start_conversation_begin(w, c, "start")
    \/ \E s \in starting, ok \in BOOLEAN : runner_started(s, ok)
    \/ \E c \in ConvIds : stop_conversation_begin(c)
    \/ \E pid \in stopping : stop_conversation_finish(pid)
    \/ \E pid \in 1..MaxPids : subprocess_exits(pid)

SpecWMExit == InitWM /\ [][NextWMExit]_vars

\* list_conversations / get_conversation report is_running, and
\* start_conversation answers "already running", by this test.
TreatedAsRunning(c) == IsRegistered(wm_conversations, c)

\* ConversationRunner.is_running: the runner has a process and it is
\* alive.
ConversationRunner_is_running(c) ==
    /\ IsRegistered(wm_conversations, c)
    /\ RunnerOf(wm_conversations, c) # NoPid
    /\ \E p \in procs : p.pid = RunnerOf(wm_conversations, c)

\* C39: a conversation is treated as running only while its subprocess is
\* alive; a conversation whose runner failed to start, or whose
\* subprocess has exited, is not treated as running.
C39_RunningMeansAlive ==
    \A c \in ConvIds : TreatedAsRunning(c) => ConversationRunner_is_running(c)


(***************************************************************************)
(* OpenCodeWorker (pyworker/app/workers/v1/opencode.py): one worker, its   *)
(* OpenCodeConversationManager and the ProcessHandler objects it builds.   *)
(* self.process_handler is shared by every send_message call of the        *)
(* worker; a call suspends in ProcessHandler.stop() (the wait for the      *)
(* child's exit) and in ProcessHandler.start() (create_subprocess_exec).   *)
(***************************************************************************)
OcWorker == "w1"
ProjectDirs == {"A", "B"}
\* ProcessHandler objects built per run, and send_message calls in flight.
MaxHandlers == 2
MaxOcSends == 2
\* Conversations the OpenCode worker is given.
MaxOcConvs == 2

notOC == <<msgVars, phVars, fmVars, parserVars, workerVars, capVars, apiVars,
           timeVars, wmVars, conv_dirs>>

\* ProcessHandler.__init__
NewHandler(path) ==
    [project_path |-> path, is_running |-> FALSE, process |-> FALSE,
     exited |-> FALSE, startPc |-> "idle"]

\* ProcessHandler.is_alive: is_running, a process, and no return code yet.
handler_is_alive(h) == h.is_running /\ h.process /\ ~h.exited

\* Mutant: the write does not ask whether the handler has a process.
handler_send_message_unguarded(h) == TRUE

\* ProcessHandler.send_message writes to the child's stdin only when the
\* handler is running and has a process.
handler_send_message(h) == h.is_running /\ h.process

\* create_subprocess_exec calls return in the order they were made: each
\* takes the same number of turns of the event loop.
start_returns_next(hs, h) ==
    \A k \in DOMAIN hs : hs[k].startPc = "starting" => h <= k

\* OpenCodeConversationManager.new_conversation
oc_new_conversation(path) ==
    /\ nextConvId <= MaxOcConvs
    /\ nextConvId \in ConvIds
    /\ oc_project_path' = [oc_project_path EXCEPT ![nextConvId] = path]
    /\ conversations_cache' =
          [conversations_cache EXCEPT ![OcWorker] = @ \cup {nextConvId}]
    /\ current_conversation_id' =
          [current_conversation_id EXCEPT ![OcWorker] = nextConvId]
    /\ conversations' = DatabaseManager_create_conversation(conversations,
                            ConversationDO(nextConvId, OcWorker, TRUE, NULL, clock))
    /\ nextConvId' = nextConvId + 1
    /\ last' = [op |-> "oc_new", status |-> 200, worker |-> OcWorker,
                conv |-> nextConvId, pre |-> {}]
    /\ UNCHANGED <<notOC, oc_process_handler, oc_handlers, oc_sends, oc_written>>

\* OpenCodeConversationManager.switch_conversation, for a cached id
oc_switch_conversation(c) ==
    /\ current_conversation_id' =
          [current_conversation_id EXCEPT ![OcWorker] = c]
    /\ conversations' =
          DatabaseManager_switch_conversation(conversations, OcWorker, c, clock)

\* send_message up to _ensure_process_for_conversation: the conversation
\* becomes the current one when it is not.
oc_select(c) ==
    IF current_conversation_id[OcWorker] = c
       THEN UNCHANGED <<conversations, current_conversation_id>>
       ELSE oc_switch_conversation(c)

\* A free number for a suspended call.
FreeSend == CHOOSE n \in 1..MaxOcSends : \A s \in oc_sends : s.n # n

\* _ensure_process_for_conversation, lines 84-107, and the rest of
\* send_message when start() returns at once: a handler is built and
\* stored in self.process_handler, then its start() is awaited.  A spawn
\* that fails raises inside start() before anything is awaited.
BuildHandler(hs, sends, c, n, ok) ==
    /\ Len(hs) < MaxHandlers
    /\ oc_process_handler' = Len(hs) + 1
    /\ oc_handlers' = Append(hs,
          [NewHandler(oc_project_path[c]) EXCEPT
             !.startPc = IF ok THEN "starting" ELSE "failed"])
    /\ oc_sends' = IF ok THEN sends \cup {[n |-> n, conv |-> c, pc |-> "start",
                                          h |-> Len(hs) + 1]}
                   ELSE sends
    /\ UNCHANGED oc_written

\* send_message, lines 135-176, up to its first suspension.
oc_send_message_begin(c, ok) ==
    /\ last' = [op |-> "oc_send_begin", status |-> 0, worker |-> OcWorker,
                conv |-> c, pre |-> {}]
    /\ UNCHANGED <<notOC, nextConvId, conversations_cache, oc_project_path>>
    /\ IF c \notin conversations_cache[OcWorker]
             /\ current_conversation_id[OcWorker] # c
          THEN \* switch_conversation raises ValueError: False
               UNCHANGED <<conversations, current_conversation_id,
                           oc_process_handler, oc_handlers, oc_sends, oc_written>>
       ELSE IF oc_project_path[c] = NoPath
          THEN UNCHANGED <<conversations, current_conversation_id,
                           oc_process_handler, oc_handlers, oc_sends, oc_written>>
       ELSE /\ oc_select(c)
            /\ IF oc_process_handler # NoHandler
                    /\ handler_is_alive(oc_handlers[oc_process_handler])
                  THEN IF oc_handlers[oc_process_handler].project_path
                             = oc_project_path[c]
                          THEN \* the running process is reused
                               /\ oc_written' = oc_written \cup
                                     {[conv |-> c,
                                       cwd |-> oc_handlers[oc_process_handler].project_path]}
                               /\ UNCHANGED <<oc_process_handler, oc_handlers, oc_sends>>
                          ELSE \* await self._stop_process()
                               /\ Cardinality(oc_sends) < MaxOcSends
                               /\ oc_sends' = oc_sends \cup
                                     {[n |-> FreeSend, conv |-> c, pc |-> "stop",
                                       h |-> oc_process_handler]}
                               /\ UNCHANGED <<oc_process_handler, oc_handlers, oc_written>>
                  ELSE /\ Cardinality(oc_sends) < MaxOcSends
                       /\ BuildHandler(oc_handlers, oc_sends, c, FreeSend, ok)

\* The child of a started handler exits, terminated by stop() or by
\* itself.
oc_process_exits(h) ==
    /\ h \in DOMAIN oc_handlers
    /\ handler_is_alive(oc_handlers[h])
    /\ oc_handlers' = [oc_handlers EXCEPT ![h].exited = TRUE]
    /\ last' = [op |-> "oc_exit", status |-> 0, worker |-> OcWorker, conv |-> 0,
                pre |-> {}]
    /\ UNCHANGED <<notOC, repoVars, current_conversation_id, conversations_cache,
                   oc_project_path, oc_process_handler, oc_sends, oc_written>>

\* _stop_process resumes, lines 111-113: stop() clears the handler it
\* stopped, self.process_handler is set to None whatever it holds by now,
\* and _ensure_process_for_conversation goes on to build a handler.
oc_stop_returns(s, ok) ==
    /\ s \in oc_sends
    /\ s.pc = "stop"
    /\ oc_handlers[s.h].exited
    /\ BuildHandler([oc_handlers EXCEPT ![s.h].is_running = FALSE,
                                        ![s.h].process = FALSE],
                    oc_sends \ {s}, s.conv, s.n, ok)
    /\ last' = [op |-> "oc_stop_returns", status |-> 0, worker |-> OcWorker,
                conv |-> s.conv, pre |-> {}]
    /\ UNCHANGED <<notOC, repoVars, current_conversation_id, conversations_cache,
                   oc_project_path>>

\* start() resumes, lines 94-100, and send_message goes on, line 163: the
\* message goes to whatever self.process_handler holds by now.
oc_start_returns(s) ==
    /\ s \in oc_sends
    /\ s.pc = "start"
    /\ start_returns_next(oc_handlers, s.h)
    /\ LET hs == [oc_handlers EXCEPT ![s.h].is_running = TRUE,
                                     ![s.h].process = TRUE,
                                     ![s.h].startPc = "done"]
           sent == /\ oc_process_handler # NoHandler
                   /\ handler_send_message(hs[oc_process_handler])
       IN /\ oc_handlers' = hs
          /\ oc_written' =
                IF sent
                   THEN oc_written \cup
                           {[conv |-> s.conv,
                             cwd |-> hs[oc_process_handler].project_path]}
                   ELSE oc_written
          /\ last' = [op |-> "oc_send", status |-> IF sent THEN 200 ELSE 500,
                      worker |-> OcWorker, conv |-> s.conv,
                      pre |-> {}]
    /\ oc_sends' = oc_sends \ {s}
    /\ UNCHANGED <<notOC, repoVars, current_conversation_id, conversations_cache,
                   oc_project_path, oc_process_handler>>

NextOC ==
    \/ \E path \in ProjectDirs : oc_new_conversation(path)
    \/ \E c \in 1..MaxOcConvs, ok \in BOOLEAN : oc_send_message_begin(c, ok)
    \/ \E h \in 1..MaxHandlers : oc_process_exits(h)
    \/ \E s \in oc_sends, ok \in BOOLEAN : oc_stop_returns(s, ok)
    \/ \E s \in oc_sends : oc_start_returns(s)

SpecOC == InitWM /\ [][NextOC]_vars

====
